---- MODULE Spec2Model ----
(***************************************************************************)
(* The deterministic verification engine of fs-casting-check               *)
(* (src/lib/verification-engine.ts): runVerification applied to an         *)
(* ExtractionResult, its four passes taken in any order, and               *)
(* toAuditDashboardData applied to the result.                             *)
(*                                                                         *)
(* Monetary amounts are JavaScript numbers.  They are modelled exactly, as *)
(* integers counting thousandths of the currency unit ("mills"), so that   *)
(* an input may carry a fraction of a cent and Math.round(x * 100) is a    *)
(* real rounding: 1 unit = 1000 mills, 1 cent = 10 mills.                  *)
(***************************************************************************)
EXTENDS Integers, Sequences, FiniteSets, TLC

VARIABLES extraction, pc, verification, previous, passes, dashboard, retry, chat, raw

vars == <<extraction, pc, verification, previous, passes, dashboard, retry, chat, raw>>

\* ------------------------------------------------------------------ bounds

\* The longest list of casting relationships, of movements and of
\* cross-references in an extraction that mixes the kinds of check.
MaxRecords == 2

\* The most statements in an extraction.
MaxStatements == 2

\* The most components of a casting and the most additions (deductions) of a
\* movement.
MaxComponents == 2

\* The most checks in an extraction made to exercise the KPI counters.
MaxKpiChecks == 10

\* ------------------------------------------------------- program constants

HighThreshold == 10000
MediumThreshold == 1000

\* ------------------------------------------------------ numeric primitives

\* n whole currency units, in mills.
RM(n) == n * 1000

\* n whole cents, in mills.
Cents(n) == n * 10

Abs(x) == IF x < 0 THEN 0 - x ELSE x

\* Math.round(x * 100) for x in mills: the nearest whole number of cents, a
\* half rounding towards +infinity as Math.round does.
roundTimes100(x) == (x + 5) \div 10

RECURSIVE sumCents(_)
sumCents(numbers) ==
    IF numbers = <<>> THEN 0
    ELSE sumCents(SubSeq(numbers, 1, Len(numbers) - 1))
             + roundTimes100(numbers[Len(numbers)])

\* A reduce that is given no initial value: the accumulator starts as the
\* first number itself, unscaled (and an empty array has no sum).
preciseSumNoInit(numbers) ==
    IF numbers = <<>> THEN 0
    ELSE Cents((numbers[1] \div 1000) + sumCents(Tail(numbers)))

preciseSum(numbers) == Cents(sumCents(numbers))

\* The rounded difference with its sign, Math.abs left out.
calculateVarianceSigned(calculated, stated) ==
    Cents(roundTimes100(calculated - stated))

calculateVariance(calculated, stated) ==
    Abs(Cents(roundTimes100(calculated - stated)))

\* x / y rounded to the nearest integer for x >= 0, y > 0, carried out digit
\* by digit so that no intermediate product leaves 32 bits.
RECURSIVE scaledQuotient(_, _, _, _)
scaledQuotient(q, r, y, digits) ==
    IF digits = 0 THEN (IF 2 * r >= y THEN q + 1 ELSE q)
    ELSE scaledQuotient(q * 10 + ((r * 10) \div y), (r * 10) % y, y, digits - 1)

\* The percentage without a case for a nonzero variance against a stated 0:
\* a stated 0 gives 0 whatever the variance.
calculateVariancePercentageZeroStated(variance, stated) ==
    IF stated = 0 THEN 0
    ELSE scaledQuotient(variance \div Abs(stated), variance % Abs(stated),
                        Abs(stated), 4)

\* The percentage in hundredths of a percent (12.34 % is 1234).
calculateVariancePercentage(variance, stated) ==
    IF stated = 0 THEN (IF variance = 0 THEN 0 ELSE 100 * 100)
    ELSE scaledQuotient(variance \div Abs(stated), variance % Abs(stated),
                        Abs(stated), 4)

\* A tolerance of one currency unit instead of exactly zero.
determineStatusTolerant(variance) ==
    IF Abs(variance) < RM(1) THEN "pass" ELSE "fail"

determineStatus(variance) ==
    IF variance = 0 THEN "pass" ELSE "fail"

determineSeverityStrict(variance) ==
    IF Abs(variance) > RM(HighThreshold) THEN "high"
    ELSE IF Abs(variance) > RM(MediumThreshold) THEN "medium"
    ELSE "low"

determineSeverity(variance) ==
    IF Abs(variance) >= RM(HighThreshold) THEN "high"
    ELSE IF Abs(variance) >= RM(MediumThreshold) THEN "medium"
    ELSE "low"

\* toLocaleString with no fraction digits: the absolute amount rounded to
\* whole units; a negative amount is put in parentheses.
formatRM(amount) ==
    [parenthesized |-> amount < 0, units |-> (Abs(amount) + 500) \div 1000]

\* `${prefix}_${Date.now()}_${Math.random()...}`: draw number `call` of the
\* random stream `stream` of this run, at clock reading `now`.
generateId(prefix, now, stream, call) ==
    [prefix |-> prefix, now |-> now, random |-> <<stream, call>>]

\* ------------------------------------------------------- vertical casting

verifyCasting(section, description, components, statedTotal, now, stream, call) ==
    LET amounts == [i \in 1..Len(components) |-> components[i].amount]
        calculatedTotal == preciseSum(amounts)
        variance == calculateVariance(calculatedTotal, statedTotal)
    IN  [ id |-> generateId("cast", now, stream, call),
          checkType |-> "vertical",
          section |-> section,
          description |-> description,
          components |-> components,
          calculatedTotal |-> calculatedTotal,
          statedTotal |-> statedTotal,
          variance |-> variance,
          variancePercentage |-> calculateVariancePercentage(variance, statedTotal),
          status |-> determineStatus(variance),
          verifiedBy |-> "code",
          timestamp |-> now ]

\* rel.componentAmounts[i] || 0
amountOrZero(componentAmounts, i) ==
    IF i \in DOMAIN componentAmounts THEN componentAmounts[i] ELSE 0

\* The pairing made over componentAmounts instead: one component for each
\* amount, an amount without a label keeping an empty label.
componentsOfEveryAmount(rel) ==
    [i \in 1..Len(rel.componentAmounts) |->
        [label |-> IF i \in DOMAIN rel.componentLabels THEN rel.componentLabels[i] ELSE "",
         amount |-> rel.componentAmounts[i]]]

componentsOf(rel) ==
    [i \in 1..Len(rel.componentLabels) |->
        [label |-> rel.componentLabels[i],
         amount |-> amountOrZero(rel.componentAmounts, i)]]

verifyAllCastings(castingRelationships, now, stream, firstCall) ==
    [k \in 1..Len(castingRelationships) |->
        LET rel == castingRelationships[k]
        IN  verifyCasting(rel.section, <<rel.totalLabel, " calculation">>,
                          componentsOf(rel), rel.totalAmount,
                          now, stream, firstCall + k - 1)]

\* ---------------------------------------------------------- balance sheet

verifyBalanceSheet(totalAssets, totalLiabilities, totalEquity, now, stream, call) ==
    LET calculatedLiabilitiesPlusEquity == preciseSum(<<totalLiabilities, totalEquity>>)
        variance == calculateVariance(totalAssets, calculatedLiabilitiesPlusEquity)
    IN  [ id |-> generateId("bs", now, stream, call),
          checkType |-> "balance_equation",
          totalAssets |-> totalAssets,
          totalLiabilities |-> totalLiabilities,
          totalEquity |-> totalEquity,
          calculatedLiabilitiesPlusEquity |-> calculatedLiabilitiesPlusEquity,
          variance |-> variance,
          status |-> determineStatus(variance),
          verifiedBy |-> "code",
          timestamp |-> now ]

\* ------------------------------------------------------ horizontal casting

amountsOf(entries) == [i \in 1..Len(entries) |-> entries[i].amount]

\* The reconciliation with the deductions added to the opening balance
\* instead of taken from it.
verifyMovementAddingDeductions(movement, now, stream, call) ==
    LET totalAdditions == preciseSum(amountsOf(movement.additions))
        totalDeductions == preciseSum(amountsOf(movement.deductions))
        calculatedClosing ==
            preciseSum(<<movement.opening, totalAdditions, totalDeductions>>)
        variance == calculateVariance(calculatedClosing, movement.statedClosing)
    IN  [ id |-> generateId("mov", now, stream, call),
          checkType |-> "horizontal",
          accountName |-> movement.accountName,
          opening |-> movement.opening,
          totalAdditions |-> totalAdditions,
          totalDeductions |-> totalDeductions,
          calculatedClosing |-> calculatedClosing,
          statedClosing |-> movement.statedClosing,
          variance |-> variance,
          status |-> determineStatus(variance),
          verifiedBy |-> "code",
          timestamp |-> now ]

verifyMovement(movement, now, stream, call) ==
    LET totalAdditions == preciseSum(amountsOf(movement.additions))
        totalDeductions == preciseSum(amountsOf(movement.deductions))
        calculatedClosing ==
            preciseSum(<<movement.opening, totalAdditions, 0 - totalDeductions>>)
        variance == calculateVariance(calculatedClosing, movement.statedClosing)
    IN  [ id |-> generateId("mov", now, stream, call),
          checkType |-> "horizontal",
          accountName |-> movement.accountName,
          opening |-> movement.opening,
          totalAdditions |-> totalAdditions,
          totalDeductions |-> totalDeductions,
          calculatedClosing |-> calculatedClosing,
          statedClosing |-> movement.statedClosing,
          variance |-> variance,
          status |-> determineStatus(variance),
          verifiedBy |-> "code",
          timestamp |-> now ]

verifyAllMovements(movements, now, stream, firstCall) ==
    [k \in 1..Len(movements) |->
        verifyMovement(movements[k], now, stream, firstCall + k - 1)]

\* --------------------------------------------------------- cross-reference

\* The comparison made on the magnitudes of the two amounts, their signs
\* left aside.
verifyCrossReferenceByMagnitude(crossRef, now, stream, call) ==
    LET variance == calculateVariance(Abs(crossRef.noteTotal), Abs(crossRef.statementAmount))
    IN  [ id |-> generateId("xref", now, stream, call),
          checkType |-> "cross_reference",
          noteRef |-> crossRef.noteRef,
          noteDescription |-> crossRef.noteDescription,
          noteAmount |-> crossRef.noteTotal,
          statementAmount |-> crossRef.statementAmount,
          variance |-> variance,
          status |-> determineStatus(variance),
          verifiedBy |-> "code",
          timestamp |-> now ]

verifyCrossReference(crossRef, now, stream, call) ==
    LET variance == calculateVariance(crossRef.noteTotal, crossRef.statementAmount)
    IN  [ id |-> generateId("xref", now, stream, call),
          checkType |-> "cross_reference",
          noteRef |-> crossRef.noteRef,
          noteDescription |-> crossRef.noteDescription,
          noteAmount |-> crossRef.noteTotal,
          statementAmount |-> crossRef.statementAmount,
          variance |-> variance,
          status |-> determineStatus(variance),
          verifiedBy |-> "code",
          timestamp |-> now ]

verifyAllCrossReferences(crossReferences, now, stream, firstCall) ==
    [k \in 1..Len(crossReferences) |->
        verifyCrossReference(crossReferences[k], now, stream, firstCall + k - 1)]

\* ----------------------------------------------------- exception synthesis

\* A template string: its literal pieces and the values put into it.
text(s) == [kind |-> "text", text |-> s]

\* An amount put into the template through formatRM.
shown(value) == [kind |-> "value", value |-> value]

\* A string of the result put into the template as it is.
named(string) == [kind |-> "string", string |-> string]

null == [isNull |-> TRUE]

undefined == [isUndefined |-> TRUE]

castingToException(result, exceptionId) ==
    IF result.status = "pass" THEN null
    ELSE [ id |-> exceptionId,
           type |-> "Casting Error",
           location |-> result.section,
           description |-> << named(result.description),
                              text(": Components sum to "),
                              shown(formatRM(result.calculatedTotal)),
                              text(" but stated as "),
                              shown(formatRM(result.statedTotal)) >>,
           statedAmount |-> result.statedTotal,
           calculatedAmount |-> result.calculatedTotal,
           difference |-> result.variance,
           severity |-> determineSeverity(result.variance),
           recommendation |-> "Verify the arithmetic in the source document and correct if necessary.",
           relatedCheckId |-> result.id ]

balanceSheetToExceptionByMagnitude(result, exceptionId) ==
    IF result.status = "pass" THEN null
    ELSE [ id |-> exceptionId,
           type |-> "Balance Sheet Imbalance",
           location |-> "Statement of Financial Position",
           description |-> << text("Balance sheet does not balance: Assets "),
                              shown(formatRM(result.totalAssets)),
                              text(" # Liabilities "),
                              shown(formatRM(result.totalLiabilities)),
                              text(" + Equity "),
                              shown(formatRM(result.totalEquity)) >>,
           statedAmount |-> result.totalAssets,
           calculatedAmount |-> result.calculatedLiabilitiesPlusEquity,
           difference |-> result.variance,
           severity |-> determineSeverity(result.variance),
           recommendation |-> "Urgent: Balance sheet must balance. Review all totals for errors.",
           relatedCheckId |-> result.id ]

balanceSheetToException(result, exceptionId) ==
    IF result.status = "pass" THEN null
    ELSE [ id |-> exceptionId,
           type |-> "Balance Sheet Imbalance",
           location |-> "Statement of Financial Position",
           description |-> << text("Balance sheet does not balance: Assets "),
                              shown(formatRM(result.totalAssets)),
                              text(" # Liabilities "),
                              shown(formatRM(result.totalLiabilities)),
                              text(" + Equity "),
                              shown(formatRM(result.totalEquity)) >>,
           statedAmount |-> result.totalAssets,
           calculatedAmount |-> result.calculatedLiabilitiesPlusEquity,
           difference |-> result.variance,
           severity |-> "high",
           recommendation |-> "Urgent: Balance sheet must balance. Review all totals for errors.",
           relatedCheckId |-> result.id ]

movementToException(result, exceptionId) ==
    IF result.status = "pass" THEN null
    ELSE [ id |-> exceptionId,
           type |-> "Movement Reconciliation Error",
           location |-> <<result.accountName, " Movement">>,
           description |-> << text("Movement does not reconcile: Opening "),
                              shown(formatRM(result.opening)),
                              text(" + Additions "),
                              shown(formatRM(result.totalAdditions)),
                              text(" - Deductions "),
                              shown(formatRM(result.totalDeductions)),
                              text(" = "),
                              shown(formatRM(result.calculatedClosing)),
                              text(", but stated closing is "),
                              shown(formatRM(result.statedClosing)) >>,
           statedAmount |-> result.statedClosing,
           calculatedAmount |-> result.calculatedClosing,
           difference |-> result.variance,
           severity |-> determineSeverity(result.variance),
           recommendation |-> "Review the movement schedule and verify all additions and deductions are captured.",
           relatedCheckId |-> result.id ]

\* The conversion without its early return for a passing result.
crossRefToExceptionUnguarded(result, exceptionId) ==
    [ id |-> exceptionId,
      type |-> "Cross Reference Mismatch",
      location |-> result.noteRef,
      description |-> << named(result.noteDescription),
                         text(": Note shows "),
                         shown(formatRM(result.noteAmount)),
                         text(" but statement shows "),
                         shown(formatRM(result.statementAmount)) >>,
      statedAmount |-> result.statementAmount,
      calculatedAmount |-> result.noteAmount,
      difference |-> result.variance,
      severity |-> determineSeverity(result.variance),
      recommendation |-> "Verify that the note total agrees with the statement line item. May be a presentation or disclosure error.",
      relatedCheckId |-> result.id ]

\* The conversion with the two amounts exchanged: the note amount given as
\* the stated amount and the statement amount as the calculated one.
crossRefToExceptionExchanged(result, exceptionId) ==
    IF result.status = "pass" THEN null
    ELSE [ id |-> exceptionId,
           type |-> "Cross Reference Mismatch",
           location |-> result.noteRef,
           description |-> << named(result.noteDescription),
                              text(": Note shows "),
                              shown(formatRM(result.noteAmount)),
                              text(" but statement shows "),
                              shown(formatRM(result.statementAmount)) >>,
           statedAmount |-> result.noteAmount,
           calculatedAmount |-> result.statementAmount,
           difference |-> result.variance,
           severity |-> determineSeverity(result.variance),
           recommendation |-> "Verify that the note total agrees with the statement line item. May be a presentation or disclosure error.",
           relatedCheckId |-> result.id ]

crossRefToException(result, exceptionId) ==
    IF result.status = "pass" THEN null
    ELSE [ id |-> exceptionId,
           type |-> "Cross Reference Mismatch",
           location |-> result.noteRef,
           description |-> << named(result.noteDescription),
                              text(": Note shows "),
                              shown(formatRM(result.noteAmount)),
                              text(" but statement shows "),
                              shown(formatRM(result.statementAmount)) >>,
           statedAmount |-> result.statementAmount,
           calculatedAmount |-> result.noteAmount,
           difference |-> result.variance,
           severity |-> determineSeverity(result.variance),
           recommendation |-> "Verify that the note total agrees with the statement line item. May be a presentation or disclosure error.",
           relatedCheckId |-> result.id ]

\* The conversion each of the four loops of runVerification applies.
toException(result, exceptionId) ==
    CASE result.checkType = "vertical" -> castingToException(result, exceptionId)
      [] result.checkType = "balance_equation" -> balanceSheetToException(result, exceptionId)
      [] result.checkType = "horizontal" -> movementToException(result, exceptionId)
      [] result.checkType = "cross_reference" -> crossRefToException(result, exceptionId)

\* for (const result of results) { const ex = ...; if (ex) { push; exceptionId++ } }
\* acc holds the exceptions list and the exceptionId counter.
RECURSIVE pushExceptions(_, _)
pushExceptions(results, acc) ==
    IF results = <<>> THEN acc
    ELSE LET ex == toException(Head(results), acc.exceptionId)
         IN  pushExceptions(Tail(results),
                 IF ex = null THEN acc
                 ELSE [exceptions |-> Append(acc.exceptions, ex),
                       exceptionId |-> acc.exceptionId + 1])

\* The balance-sheet result left out of the count even when there is one.
optionalOmitted(result) == <<>>

optional(result) == IF result = undefined THEN <<>> ELSE <<result>>

\* The balance-sheet failure collected after the cross-references.
collectExceptionsBalanceLast(castingResults, balanceSheetResult, movementResults, crossReferenceResults) ==
    LET start == [exceptions |-> <<>>, exceptionId |-> 1]
        afterCastings == pushExceptions(castingResults, start)
        afterMovements == pushExceptions(movementResults, afterCastings)
        afterCrossRefs == pushExceptions(crossReferenceResults, afterMovements)
    IN  pushExceptions(optional(balanceSheetResult), afterCrossRefs).exceptions

collectExceptions(castingResults, balanceSheetResult, movementResults, crossReferenceResults) ==
    LET start == [exceptions |-> <<>>, exceptionId |-> 1]
        afterCastings == pushExceptions(castingResults, start)
        afterBalance == pushExceptions(optional(balanceSheetResult), afterCastings)
        afterMovements == pushExceptions(movementResults, afterBalance)
    IN  pushExceptions(crossReferenceResults, afterMovements).exceptions

\* ------------------------------------------------------------- conclusion

RECURSIVE selectSeq(_, _)
selectSeq(s, severity) ==
    IF s = <<>> THEN <<>>
    ELSE IF Head(s).severity = severity
         THEN <<Head(s)>> \o selectSeq(Tail(s), severity)
         ELSE selectSeq(Tail(s), severity)

countSeverity(exceptions, severity) == Len(selectSeq(exceptions, severity))

generateConclusionSummary(exceptions, totalChecks, passed) ==
    IF Len(exceptions) = 0
    THEN << text("The financial statements cast correctly with no exceptions. All "),
            shown(totalChecks), text(" checks passed.") >>
    ELSE LET highCount == countSeverity(exceptions, "high")
             mediumCount == countSeverity(exceptions, "medium")
             lowCount == countSeverity(exceptions, "low")
             parts == (IF highCount > 0 THEN <<shown(<<highCount, "high">>)>> ELSE <<>>)
                   \o (IF mediumCount > 0 THEN <<shown(<<mediumCount, "medium">>)>> ELSE <<>>)
                   \o (IF lowCount > 0 THEN <<shown(<<lowCount, "low">>)>> ELSE <<>>)
         IN  << text("The financial statements cast correctly subject to "),
                shown(Len(exceptions)), text(" exception(s)") >>
             \o (IF Len(parts) > 0 THEN <<text(" (")>> \o parts \o <<text(" severity)")>>
                 ELSE <<>>)
             \o << text(". "), shown(passed), text("/"), shown(totalChecks),
                   text(" checks passed.") >>

\* The items built from the exceptions as they come, without the sort.
generateConclusionItemsUnsorted(exceptions) ==
    [i \in 1..Len(exceptions) |->
        [ priority |-> exceptions[i].severity,
          note |-> exceptions[i].location,
          description |-> << text("Stated "), shown(formatRM(exceptions[i].statedAmount)),
                             text(" vs Calculated "), shown(formatRM(exceptions[i].calculatedAmount)),
                             text(" -> delta "), shown(formatRM(exceptions[i].difference)) >> ]]

\* Array.prototype.sort is stable: exceptions of equal severity keep their
\* order, so the sorted list is the high ones, then the medium, then the low.
generateConclusionItems(exceptions) ==
    LET sorted == selectSeq(exceptions, "high") \o selectSeq(exceptions, "medium")
                     \o selectSeq(exceptions, "low")
    IN  [i \in 1..Len(sorted) |->
            [ priority |-> sorted[i].severity,
              note |-> sorted[i].location,
              description |-> << text("Stated "), shown(formatRM(sorted[i].statedAmount)),
                                 text(" vs Calculated "), shown(formatRM(sorted[i].calculatedAmount)),
                                 text(" -> delta "), shown(formatRM(sorted[i].difference)) >> ]]

\* The note with a missing balance check taken for a balance that holds.
generateConclusionNoteAssumingBalance(balanceSheetResult, passed, totalChecks) ==
    (IF balanceSheetResult = undefined \/ balanceSheetResult.status = "pass"
     THEN <<text("Balance Sheet balances correctly (Assets = Liabilities + Equity).")>>
     ELSE << text("WARNING: Balance Sheet does not balance - variance of "),
             shown(formatRM(balanceSheetResult.variance)), text(".") >>)
    \o (IF passed = totalChecks
        THEN <<text("All arithmetic has been verified by deterministic code with 100% accuracy.")>>
        ELSE << shown(passed), text(" of "), shown(totalChecks),
                text(" checks passed. Exceptions should be investigated.") >>)

generateConclusionNote(balanceSheetResult, passed, totalChecks) ==
    (IF balanceSheetResult # undefined
     THEN IF balanceSheetResult.status = "pass"
          THEN <<text("Balance Sheet balances correctly (Assets = Liabilities + Equity).")>>
          ELSE << text("WARNING: Balance Sheet does not balance - variance of "),
                  shown(formatRM(balanceSheetResult.variance)), text(".") >>
     ELSE <<>>)
    \o (IF passed = totalChecks
        THEN <<text("All arithmetic has been verified by deterministic code with 100% accuracy.")>>
        ELSE << shown(passed), text(" of "), shown(totalChecks),
                text(" checks passed. Exceptions should be investigated.") >>)

\* ------------------------------------------------------------ orchestrator

\* statements.find(s => s.statementType === 'SOFP') without the test of the
\* statement type: the first statement, whatever it is.
findSOFPAnyType(statements) ==
    IF statements = <<>> THEN undefined ELSE statements[1]

\* The first SOFP statement that carries all three totals, an earlier SOFP
\* statement that lacks one being passed over.
findSOFPWithTotals(statements) ==
    LET found == {i \in 1..Len(statements) :
                     /\ statements[i].statementType = "SOFP"
                     /\ statements[i].totalAssets # undefined
                     /\ statements[i].totalLiabilities # undefined
                     /\ statements[i].totalEquity # undefined}
    IN  IF found = {} THEN undefined
        ELSE statements[CHOOSE i \in found : \A j \in found : i <= j]

\* extraction.statements.find(s => s.statementType === 'SOFP')
findSOFP(statements) ==
    LET found == {i \in 1..Len(statements) : statements[i].statementType = "SOFP"}
    IN  IF found = {} THEN undefined
        ELSE statements[CHOOSE i \in found : \A j \in found : i <= j]

\* sofp?.totalAssets && sofp?.totalLiabilities && sofp?.totalEquity
hasAllTotals(sofp) ==
    /\ sofp # undefined
    /\ sofp.totalAssets # undefined
    /\ sofp.totalLiabilities # undefined
    /\ sofp.totalEquity # undefined

\* The balance check fed with the prior-period totals.
balanceSheetResultOfPrior(statements, now, stream, call) ==
    LET sofp == findSOFP(statements)
    IN  IF hasAllTotals(sofp)
        THEN verifyBalanceSheet(sofp.totalAssets.prior, sofp.totalLiabilities.prior,
                                sofp.totalEquity.prior, now, stream, call)
        ELSE undefined

balanceSheetResultOf(statements, now, stream, call) ==
    LET sofp == findSOFP(statements)
    IN  IF hasAllTotals(sofp)
        THEN verifyBalanceSheet(sofp.totalAssets.current, sofp.totalLiabilities.current,
                                sofp.totalEquity.current, now, stream, call)
        ELSE undefined

RECURSIVE countStatus(_, _)
countStatus(results, status) ==
    IF results = <<>> THEN 0
    ELSE (IF Head(results).status = status THEN 1 ELSE 0)
             + countStatus(Tail(results), status)

\* The rate cut down to a whole number instead of rounded to the nearest.
passRateTruncated(passed, totalChecks) ==
    IF totalChecks > 0 THEN (passed * 100) \div totalChecks ELSE 100

\* The rate of no checks at all taken as 0 (0 / 0 rounded) instead of 100.
passRateUnguarded(passed, totalChecks) ==
    IF totalChecks > 0
    THEN (2 * passed * 100 + totalChecks) \div (2 * totalChecks)
    ELSE 0

\* totalChecks > 0 ? Math.round((passed / totalChecks) * 100) : 100
passRateOf(passed, totalChecks) ==
    IF totalChecks > 0
    THEN (2 * passed * 100 + totalChecks) \div (2 * totalChecks)
    ELSE 100

\* The four passes of runVerification.  Every result draws its id from the
\* random stream of the run; firstCall is the number of the first draw the
\* pass makes.
castingPass(ext, now, stream, firstCall) ==
    verifyAllCastings(ext.castingRelationships, now, stream, firstCall)

movementPass(ext, now, stream, firstCall) ==
    verifyAllMovements(ext.movements, now, stream, firstCall)

crossReferencePass(ext, now, stream, firstCall) ==
    verifyAllCrossReferences(ext.crossReferences, now, stream, firstCall)

balancePass(ext, now, stream, firstCall) ==
    balanceSheetResultOf(ext.statements, now, stream, firstCall)

\* What runVerification builds from the results of the four passes: the
\* exceptions, the KPIs, the conclusion and the returned object.
verificationResultOf(ext, castingResults, balanceSheetResult, movementResults, crossReferenceResults, now) ==
    LET exceptions == collectExceptions(castingResults, balanceSheetResult,
                                        movementResults, crossReferenceResults)
        allResults == castingResults \o movementResults \o crossReferenceResults
                         \o optional(balanceSheetResult)
        totalChecks == Len(allResults)
        passed == countStatus(allResults, "pass")
    IN  [ kpi |-> [ totalChecks |-> totalChecks,
                    passed |-> passed,
                    failed |-> countStatus(allResults, "fail"),
                    warnings |-> countStatus(allResults, "warning"),
                    needsReview |-> countStatus(allResults, "needs_review"),
                    passRate |-> passRateOf(passed, totalChecks),
                    exceptionsCount |-> Len(exceptions),
                    highSeverity |-> countSeverity(exceptions, "high"),
                    mediumSeverity |-> countSeverity(exceptions, "medium"),
                    lowSeverity |-> countSeverity(exceptions, "low") ],
          castingResults |-> castingResults,
          balanceSheetResult |-> balanceSheetResult,
          movementResults |-> movementResults,
          crossReferenceResults |-> crossReferenceResults,
          exceptions |-> exceptions,
          needsHumanReview |-> ext.warnings,
          conclusionSummary |-> generateConclusionSummary(exceptions, totalChecks, passed),
          conclusionItems |-> generateConclusionItems(exceptions),
          conclusionNote |-> generateConclusionNote(balanceSheetResult, passed, totalChecks),
          verifiedAt |-> now,
          verificationMethod |-> "deterministic_code" ]

\* A run that adjudicates the warnings: each is counted as a check needing
\* review, and the list handed on keeps only the warnings of low confidence.
runVerificationAdjudicating(ext, now, stream) ==
    LET nCast == Len(ext.castingRelationships)
        nMov == Len(ext.movements)
        nXref == Len(ext.crossReferences)
        lowConfidence(w) == w.confidence < 50
        v == verificationResultOf(ext,
                 castingPass(ext, now, stream, 1),
                 balancePass(ext, now, stream, nCast + nMov + nXref + 1),
                 movementPass(ext, now, stream, nCast + 1),
                 crossReferencePass(ext, now, stream, nCast + nMov + 1),
                 now)
    IN  [v EXCEPT !.kpi.needsReview = Len(ext.warnings),
                  !.needsHumanReview = SelectSeq(ext.warnings, lowConfidence)]

\* The passes in the order of the code: castings, movements,
\* cross-references, balance sheet.
runVerification(ext, now, stream) ==
    LET nCast == Len(ext.castingRelationships)
        nMov == Len(ext.movements)
        nXref == Len(ext.crossReferences)
    IN  verificationResultOf(ext,
            castingPass(ext, now, stream, 1),
            balancePass(ext, now, stream, nCast + nMov + nXref + 1),
            movementPass(ext, now, stream, nCast + 1),
            crossReferencePass(ext, now, stream, nCast + nMov + 1),
            now)

\* ------------------------------------------------------ presentation adapter

\* array.find(predicate): the first element that satisfies the predicate,
\* or undefined; matching is the set of the indices whose element does.
find(array, matching) ==
    IF matching = {} THEN undefined
    ELSE array[CHOOSE i \in matching : \A j \in matching : i <= j]

\* variance === 0 ? 'RM 0' : formatRM(variance)
varianceShown(variance) ==
    IF variance = 0 THEN formatRM(0) ELSE formatRM(variance)

passOrFail(status) == IF status = "pass" THEN "pass" ELSE "fail"

\* entries.map(e => ({description: `${sign} ${e.description}`, value: formatRM(e.amount)}))
breakdown(sign, entries) ==
    [i \in 1..Len(entries) |->
        [description |-> <<sign, " ", entries[i].description>>,
         value |-> formatRM(entries[i].amount)]]

verticalCastingOf(castingResults) ==
    [k \in 1..Len(castingResults) |->
        LET r == castingResults[k]
        IN  [ section |-> r.section,
              description |-> r.description,
              components |-> [i \in 1..Len(r.components) |->
                                 [name |-> r.components[i].label,
                                  value |-> formatRM(r.components[i].amount)]],
              calculated |-> formatRM(r.calculatedTotal),
              stated |-> formatRM(r.statedTotal),
              variance |-> varianceShown(r.variance),
              varianceAmount |-> r.variance,
              status |-> passOrFail(r.status) ]]

horizontalCastingOf(movements, movementResults) ==
    [k \in 1..Len(movementResults) |->
        LET r == movementResults[k]
            sameAccount == {i \in 1..Len(movements) :
                               movements[i].accountName = r.accountName}
            originalMovement == find(movements, sameAccount)
        IN  [ account |-> r.accountName,
              opening |-> formatRM(r.opening),
              additions |->
                  IF originalMovement # undefined
                  THEN breakdown("+", originalMovement.additions)
                  ELSE <<[description |-> "+ Total Additions",
                          value |-> formatRM(r.totalAdditions)]>>,
              deductions |->
                  IF originalMovement # undefined
                  THEN breakdown("-", originalMovement.deductions)
                  ELSE <<[description |-> "- Total Deductions",
                          value |-> formatRM(r.totalDeductions)]>>,
              calculatedClosing |-> formatRM(r.calculatedClosing),
              statedClosing |-> formatRM(r.statedClosing),
              variance |-> varianceShown(r.variance),
              varianceAmount |-> r.variance,
              status |-> passOrFail(r.status) ]]

crossReferenceChecksOf(crossReferences, crossReferenceResults) ==
    [k \in 1..Len(crossReferenceResults) |->
        LET r == crossReferenceResults[k]
            sameNote == {i \in 1..Len(crossReferences) :
                            /\ crossReferences[i].noteRef = r.noteRef
                            /\ crossReferences[i].noteDescription = r.noteDescription}
            originalCrossRef == find(crossReferences, sameNote)
        IN  [ noteRef |-> r.noteRef,
              noteDescription |-> r.noteDescription,
              lineItem |->
                  IF originalCrossRef # undefined /\ originalCrossRef.statementLineItem # ""
                  THEN originalCrossRef.statementLineItem
                  ELSE r.noteDescription,
              perNote |-> formatRM(r.noteAmount),
              perStatement |-> formatRM(r.statementAmount),
              variance |-> varianceShown(r.variance),
              varianceAmount |-> r.variance,
              status |-> passOrFail(r.status) ]]

dashboardExceptionsOf(exceptions) ==
    [e \in 1..Len(exceptions) |->
        LET ex == exceptions[e]
        IN  [ id |-> ex.id,
              type |-> ex.type,
              location |-> ex.location,
              description |-> ex.description,
              perStatement |-> formatRM(ex.statedAmount),
              perCalculation |-> formatRM(ex.calculatedAmount),
              difference |-> formatRM(ex.difference),
              severity |-> ex.severity,
              recommendation |-> ex.recommendation ]]

toAuditDashboardData(ext, v, now) ==
    [ companyName |-> ext.companyName,
      reportDate |-> now,
      financialYearEnd |-> ext.financialYearEnd,
      kpi |-> [ testsPassed |-> v.kpi.passed,
                testsFailed |-> v.kpi.failed,
                totalTests |-> v.kpi.totalChecks,
                exceptionsFound |-> v.kpi.exceptionsCount,
                highSeverity |-> v.kpi.highSeverity,
                mediumSeverity |-> v.kpi.mediumSeverity,
                lowSeverity |-> v.kpi.lowSeverity,
                passRate |-> v.kpi.passRate,
                horizontalChecks |-> <<countStatus(v.movementResults, "pass"), "/",
                                       Len(v.movementResults)>> ],
      conclusionSummary |-> v.conclusionSummary,
      conclusionItems |-> v.conclusionItems,
      conclusionNote |-> v.conclusionNote,
      verticalCasting |-> verticalCastingOf(v.castingResults),
      horizontalCasting |-> horizontalCastingOf(ext.movements, v.movementResults),
      crossReferenceChecks |->
          crossReferenceChecksOf(ext.crossReferences, v.crossReferenceResults),
      exceptions |-> dashboardExceptionsOf(v.exceptions),
      warnings |-> ext.warnings ]

\* ------------------------------------------------------------------ inputs

\* The sequences over S of length at most n.
SeqsUpTo(S, n) == UNION {[1..k -> S] : k \in 0..n}

\* What new Date() may read, and the random streams Math.random() may follow.
Times == {"t0", "t1"}

RandomStreams == {"r0", "r1"}

labelNames == <<"A", "B", "C", "D", "E">>

castingRel(totalAmount, nLabels, componentAmounts) ==
    [ totalLabel |-> "Total",
      totalAmount |-> totalAmount,
      componentLabels |-> SubSeq(labelNames, 1, nLabels),
      componentAmounts |-> componentAmounts,
      section |-> "Assets" ]

entries(amounts) ==
    [i \in 1..Len(amounts) |-> [description |-> labelNames[i], amount |-> amounts[i]]]

movement(accountName, opening, additions, deductions, statedClosing) ==
    [ accountName |-> accountName,
      opening |-> opening,
      additions |-> entries(additions),
      deductions |-> entries(deductions),
      statedClosing |-> statedClosing ]

crossRef(noteRef, noteTotal, statementAmount, isExpenseOrDeduction) ==
    [ noteRef |-> noteRef,
      noteDescription |-> "Receivables",
      noteTotal |-> noteTotal,
      statementLineItem |-> "Trade receivables",
      statementAmount |-> statementAmount,
      statementType |-> "SOFP",
      isExpenseOrDeduction |-> isExpenseOrDeduction ]

warning(type, confidence) ==
    [ type |-> type,
      location |-> "Note 8",
      description |-> "Amount is hard to read",
      confidence |-> confidence ]

\* An AmountPair; the prior-year figure is never the current one.
pair(current) == [current |-> current, prior |-> current + RM(7)]

statement(statementType, totalAssets, totalLiabilities, totalEquity) ==
    [ statementType |-> statementType,
      totalAssets |-> totalAssets,
      totalLiabilities |-> totalLiabilities,
      totalEquity |-> totalEquity ]

extractionOf(statements, castingRelationships, movements, crossReferences, warnings) ==
    [ companyName |-> "Company Berhad",
      financialYearEnd |-> "31 December",
      statements |-> statements,
      castingRelationships |-> castingRelationships,
      movements |-> movements,
      crossReferences |-> crossReferences,
      warnings |-> warnings ]

\* Castings of every shape, the label and amount arrays of different lengths
\* included.
ComponentAmounts == {4, Cents(10), Cents(20), RM(290), RM(300), RM(500)}

StatedTotals == {0, Cents(30), 304, RM(500), RM(800), RM(1800), RM(10800)}

CastingRels ==
    { castingRel(total, n, amounts) :
        total \in StatedTotals, n \in 0..MaxComponents,
        amounts \in SeqsUpTo(ComponentAmounts, MaxComponents) }

AdditionAmounts == {4, RM(200), RM(10000)}

DeductionAmounts == {RM(50), RM(200)}

Movements ==
    { movement("PPE", opening, additions, deductions, statedClosing) :
        opening \in {0, RM(1000)},
        additions \in SeqsUpTo(AdditionAmounts, MaxComponents),
        deductions \in SeqsUpTo(DeductionAmounts, MaxComponents),
        statedClosing \in {0, RM(1000), RM(1150), RM(1200)} }

NoteTotals ==
    {0, 4, 5, Cents(1), RM(1), RM(500), 0 - RM(500), RM(999), RM(1000), RM(9999), RM(10000)}

StatementAmounts == {0, 296, 304, RM(500), 0 - RM(500)}

CrossReferences ==
    { crossRef("Note 8", noteTotal, statementAmount, flag) :
        noteTotal \in NoteTotals, statementAmount \in StatementAmounts,
        flag \in BOOLEAN }

Statements ==
    { statement("SOFP", a, l, e) :
        a \in {undefined, pair(RM(1000))},
        l \in {undefined, pair(RM(600))},
        e \in {undefined, pair(RM(400)), pair(RM(350))} }
    \cup { statement("SOCI", undefined, undefined, undefined),
           statement("NOTE", pair(RM(1000)), pair(RM(600)), pair(RM(350))) }

\* An extraction that mixes the kinds of check: of each kind one record that
\* passes and one that fails.
MixedCastings ==
    { castingRel(RM(800), 2, <<RM(500), RM(300)>>),
      castingRel(RM(800), 2, <<RM(500), RM(290)>>) }

MixedMovements ==
    { movement("PPE", RM(1000), <<RM(200)>>, <<RM(50)>>, RM(1150)),
      movement("Equity", RM(1000), <<RM(200)>>, <<RM(50)>>, RM(2650)) }

MixedCrossReferences ==
    { crossRef("Note 8", RM(500), RM(500), FALSE),
      crossRef("Note 9", RM(20500), RM(500), FALSE) }

MixedStatements ==
    { <<>>,
      <<statement("SOFP", pair(RM(1000)), pair(RM(600)), pair(RM(400)))>>,
      <<statement("SOFP", pair(RM(1000)), pair(RM(600)), pair(RM(350)))>> }

\* A statement of financial position with its three totals, balanced or out
\* of balance by little or by much.
BalanceSheets ==
    { statement("SOFP", pair(a), pair(RM(600)), pair(e)) :
        a \in {RM(1000), RM(21000)},
        e \in {RM(400), RM(400) + 4, RM(400) - Cents(1), RM(399), RM(350)} }

MixedExtractions ==
    { extractionOf(st, c, m, x, <<>>) :
        st \in MixedStatements,
        c \in SeqsUpTo(MixedCastings, MaxRecords),
        m \in SeqsUpTo(MixedMovements, MaxRecords),
        x \in SeqsUpTo(MixedCrossReferences, MaxRecords) }

FocusedExtractions ==
    { extractionOf(<<>>, <<rel>>, <<>>, <<>>, <<>>) : rel \in CastingRels }
    \cup { extractionOf(<<>>, <<>>, <<mv>>, <<>>, <<>>) : mv \in Movements }
    \cup { extractionOf(<<>>, <<>>, <<>>, <<x>>, <<>>) : x \in CrossReferences }
    \cup { extractionOf(st, <<>>, <<>>, <<>>, <<>>) :
             st \in SeqsUpTo(Statements, MaxStatements) }
    \cup { extractionOf(<<bs>>, <<>>, <<>>, <<>>, <<>>) : bs \in BalanceSheets }

\* A casting whose label and amount arrays differ in length, beside a
\* well-formed casting, a movement and a cross-reference.
MalformedExtractions ==
    { extractionOf(<<>>, c, <<mv>>, <<x>>, <<>>) :
        c \in { <<castingRel(RM(500), 1, <<RM(500), RM(300)>>), good>> :
                   good \in MixedCastings }
              \cup { <<good, castingRel(RM(800), 1, <<>>)>> : good \in MixedCastings },
        mv \in MixedMovements,
        x \in MixedCrossReferences }

\* Extractions that carry warnings, beside checks that pass and fail.
Warnings == {warning("AMBIGUOUS_AMOUNT", 40), warning("MISSING_DATA", 90)}

WarnedExtractions ==
    { extractionOf(st, c, m, x, w) :
        st \in MixedStatements,
        c \in SeqsUpTo(MixedCastings, 1),
        m \in SeqsUpTo(MixedMovements, 1),
        x \in SeqsUpTo(MixedCrossReferences, 1),
        w \in SeqsUpTo(Warnings, 2) \ {<<>>} }

\* Up to MaxKpiChecks checks: those that pass, then those that fail.
KpiExtractions ==
    { extractionOf(<<>>, <<>>, <<>>,
                   [i \in 1..(n[1] + n[2]) |->
                       IF i <= n[1] THEN crossRef("Note 8", RM(500), RM(500), FALSE)
                       ELSE crossRef("Note 9", RM(20500), RM(500), FALSE)],
                   <<>>) :
        n \in {m \in (0..MaxKpiChecks) \X (0..MaxKpiChecks) : m[1] + m[2] <= MaxKpiChecks} }

Extractions ==
    MixedExtractions \cup FocusedExtractions \cup MalformedExtractions
        \cup KpiExtractions \cup WarnedExtractions

\* ----------------------------------------------------------- state machine

noResult == [noResult |-> TRUE]

Init ==
    /\ extraction \in Extractions
    /\ pc = "ready"
    /\ verification = noResult
    /\ previous = noResult
    /\ passes = noResult
    /\ dashboard = noResult
    /\ retry = noResult
    /\ chat = noResult
    /\ raw = noResult

\* One call of runVerification(extraction).
RunVerification ==
    /\ pc = "ready"
    /\ \E now \in Times, stream \in RandomStreams :
           verification' = runVerification(extraction, now, stream)
    /\ pc' = "done"
    /\ UNCHANGED <<extraction, previous, passes, dashboard, retry, chat, raw>>

Next == RunVerification

Spec == Init /\ [][Next]_vars

\* A second call of runVerification on the same extraction; the output of the
\* first call is kept beside it.
Rerun ==
    /\ pc = "done"
    /\ previous = noResult
    /\ previous' = verification
    /\ \E now \in Times, stream \in RandomStreams :
           verification' = runVerification(extraction, now, stream)
    /\ UNCHANGED <<extraction, pc, passes, dashboard, retry, chat, raw>>

InitRerun ==
    /\ extraction \in MixedExtractions
           \cup { extractionOf(<<>>, <<>>, <<mv>>, <<>>, <<>>) : mv \in Movements }
    /\ pc = "ready"
    /\ verification = noResult
    /\ previous = noResult
    /\ passes = noResult
    /\ dashboard = noResult
    /\ retry = noResult
    /\ chat = noResult
    /\ raw = noResult

NextRerun == RunVerification \/ Rerun

SpecRerun == InitRerun /\ [][NextRerun]_vars

\* The four passes of one call run as four tasks, in any order: the
\* orchestrator fans out, each pass writes its own output, and the join
\* builds the returned object.  Math.random() is one generator for the whole
\* process: a pass draws its ids where the generator then stands, and
\* `calls` counts the draws made so far.
PassNames == {"casting", "movement", "crossReference", "balance"}

PassExtractions ==
    { extractionOf(st, c, m, x, <<>>) :
        st \in MixedStatements,
        c \in SeqsUpTo(MixedCastings, 1),
        m \in SeqsUpTo(MixedMovements, 1),
        x \in SeqsUpTo(MixedCrossReferences, 1) }

InitPasses ==
    /\ extraction \in PassExtractions
    /\ pc = "ready"
    /\ verification = noResult
    /\ previous = noResult
    /\ passes = noResult
    /\ dashboard = noResult
    /\ retry = noResult
    /\ chat = noResult
    /\ raw = noResult

FanOut ==
    /\ pc = "ready"
    /\ \E now \in Times, stream \in RandomStreams :
           passes' = [ now |-> now, stream |-> stream, calls |-> 0,
                       finished |-> {},
                       castingResults |-> <<>>,
                       movementResults |-> <<>>,
                       crossReferenceResults |-> <<>>,
                       balanceSheetResult |-> undefined ]
    /\ pc' = "running"
    /\ UNCHANGED <<extraction, verification, previous, dashboard, retry, chat, raw>>

CastingPass ==
    /\ pc = "running"
    /\ "casting" \notin passes.finished
    /\ LET results == castingPass(extraction, passes.now, passes.stream, passes.calls + 1)
       IN  passes' = [passes EXCEPT !.castingResults = results,
                                    !.calls = @ + Len(results),
                                    !.finished = @ \cup {"casting"}]
    /\ UNCHANGED <<extraction, pc, verification, previous, dashboard, retry, chat, raw>>

MovementPass ==
    /\ pc = "running"
    /\ "movement" \notin passes.finished
    /\ LET results == movementPass(extraction, passes.now, passes.stream, passes.calls + 1)
       IN  passes' = [passes EXCEPT !.movementResults = results,
                                    !.calls = @ + Len(results),
                                    !.finished = @ \cup {"movement"}]
    /\ UNCHANGED <<extraction, pc, verification, previous, dashboard, retry, chat, raw>>

CrossReferencePass ==
    /\ pc = "running"
    /\ "crossReference" \notin passes.finished
    /\ LET results == crossReferencePass(extraction, passes.now, passes.stream, passes.calls + 1)
       IN  passes' = [passes EXCEPT !.crossReferenceResults = results,
                                    !.calls = @ + Len(results),
                                    !.finished = @ \cup {"crossReference"}]
    /\ UNCHANGED <<extraction, pc, verification, previous, dashboard, retry, chat, raw>>

BalancePass ==
    /\ pc = "running"
    /\ "balance" \notin passes.finished
    /\ LET result == balancePass(extraction, passes.now, passes.stream, passes.calls + 1)
       IN  passes' = [passes EXCEPT !.balanceSheetResult = result,
                                    !.calls = @ + Len(optional(result)),
                                    !.finished = @ \cup {"balance"}]
    /\ UNCHANGED <<extraction, pc, verification, previous, dashboard, retry, chat, raw>>

Join ==
    /\ pc = "running"
    /\ passes.finished = PassNames
    /\ verification' = verificationResultOf(extraction, passes.castingResults,
                            passes.balanceSheetResult, passes.movementResults,
                            passes.crossReferenceResults, passes.now)
    /\ pc' = "done"
    /\ UNCHANGED <<extraction, previous, passes, dashboard, retry, chat, raw>>

NextPasses ==
    \/ FanOut
    \/ CastingPass
    \/ MovementPass
    \/ CrossReferencePass
    \/ BalancePass
    \/ Join

SpecPasses == InitPasses /\ [][NextPasses]_vars

\* The route handler: runVerification(extraction), then
\* toAuditDashboardData(extraction, verification).  The movements and the
\* cross-references of the input may repeat an account name, or a note
\* reference and description, as the columns of one report do.
DashboardMovements ==
    { movement("PPE", RM(1000), <<RM(200)>>, <<RM(50)>>, RM(1150)),
      movement("PPE", RM(1000), <<RM(300)>>, <<>>, RM(1300)),
      movement("Equity", RM(1000), <<RM(200)>>, <<RM(50)>>, RM(2650)) }

DashboardCrossReferences ==
    { crossRef("Note 8", RM(500), RM(500), FALSE),
      [crossRef("Note 8", RM(700), RM(500), FALSE)
          EXCEPT !.statementLineItem = "Other receivables"],
      crossRef("Note 9", RM(20500), RM(500), FALSE) }

DashboardExtractions ==
    { extractionOf(st, c, m, x, w) :
        st \in MixedStatements,
        c \in SeqsUpTo(MixedCastings, 1),
        m \in SeqsUpTo(DashboardMovements, 2),
        x \in SeqsUpTo(DashboardCrossReferences, 2),
        w \in SeqsUpTo(Warnings, 1) }

InitDashboard ==
    /\ extraction \in DashboardExtractions
    /\ pc = "ready"
    /\ verification = noResult
    /\ previous = noResult
    /\ passes = noResult
    /\ dashboard = noResult
    /\ retry = noResult
    /\ chat = noResult
    /\ raw = noResult

ToAuditDashboardData ==
    /\ pc = "done"
    /\ dashboard = noResult
    /\ \E now \in Times :
           dashboard' = toAuditDashboardData(extraction, verification, now)
    /\ UNCHANGED <<extraction, pc, verification, previous, passes, retry, chat, raw>>

NextDashboard == RunVerification \/ ToAuditDashboardData

SpecDashboard == InitDashboard /\ [][NextDashboard]_vars

\* --------------------------------------------------------------- withRetry
\* An error message is the sequence of its characters, so that
\* String.prototype.includes is a real substring search.
includes(message, part) ==
    \E i \in 1..(Len(message) - Len(part) + 1) :
        SubSeq(message, i, i + Len(part) - 1) = part

Error(message) == [kind |-> "Error", message |-> message]

\* error instanceof Error ? error : new Error(String(error))
errorOf(thrown) ==
    IF thrown.kind = "Error" THEN thrown ELSE Error(thrown.string)

isRateLimitOfAnyError(errorMessage) == TRUE

isRateLimit(errorMessage) ==
    \/ includes(errorMessage, <<"4", "2", "9">>)
    \/ includes(errorMessage, <<"r", "a", "t", "e">>)
    \/ includes(errorMessage, <<"q", "u", "o", "t", "a">>)

waitTime(attempt) == (2 ^ attempt) * 30000

MaxMaxRetries == 3

\* What fn can throw: messages with and without the three markers, a marker
\* inside a longer word, a marker in another case, the empty message, and a
\* thrown string that is not an Error.
ErrorMessages ==
    { <<"4", "2", "9">>,
      <<"r", "a", "t", "e">>,
      <<"q", "u", "o", "t", "a">>,
      <<"g", "e", "n", "e", "r", "a", "t", "e">>,
      <<"R", "a", "t", "e">>,
      <<"p", "a", "r", "s", "e">>,
      <<>> }

Thrown ==
    { Error(m) : m \in ErrorMessages }
        \cup { [kind |-> "string", string |-> <<"q", "u", "o", "t", "a">>],
               [kind |-> "string", string |-> <<"4", "0", "4">>] }

FnOutcomes ==
    { [settled |-> "resolved", value |-> v] : v \in {"extraction"} }
        \cup { [settled |-> "rejected", error |-> e] : e \in Thrown }

\* retry.settled is the history of the outcomes of the calls of fn so far;
\* the other fields are the locals of withRetry and how it ended.
InitRetry ==
    /\ extraction = noResult
    /\ pc = "ready"
    /\ verification = noResult
    /\ previous = noResult
    /\ passes = noResult
    /\ dashboard = noResult
    /\ chat = noResult
    /\ raw = noResult
    /\ retry \in { [maxRetries |-> m, attempt |-> 0, lastError |-> null,
                    pc |-> "loop", settled |-> <<>>, waits |-> <<>>,
                    value |-> undefined, thrown |-> undefined] :
                        m \in (0 - 1)..MaxMaxRetries }

\* One turn of the for loop: await fn() and the whole catch block.
Attempt ==
    /\ retry.pc = "loop"
    /\ retry.attempt <= retry.maxRetries
    /\ \E outcome \in FnOutcomes :
           LET called == [retry EXCEPT !.settled = Append(@, outcome)]
               lastError == errorOf(outcome.error)
           IN  IF outcome.settled = "resolved"
               THEN retry' = [called EXCEPT !.pc = "returned",
                                            !.value = outcome.value]
               ELSE IF isRateLimit(lastError.message)
                       /\ retry.attempt < retry.maxRetries
                    THEN retry' = [called EXCEPT
                                      !.lastError = lastError,
                                      !.waits = Append(@, waitTime(retry.attempt)),
                                      !.pc = "waiting"]
                    ELSE retry' = [called EXCEPT !.lastError = lastError,
                                                 !.thrown = lastError,
                                                 !.pc = "thrown"]
    /\ UNCHANGED <<extraction, pc, verification, previous, passes, dashboard, chat, raw>>

\* The setTimeout of the backoff fires and the loop goes to its next turn.
Backoff ==
    /\ retry.pc = "waiting"
    /\ retry' = [retry EXCEPT !.attempt = @ + 1, !.pc = "loop"]
    /\ UNCHANGED <<extraction, pc, verification, previous, passes, dashboard, chat, raw>>

\* The loop condition fails: the throw after the loop.
Exhausted ==
    /\ retry.pc = "loop"
    /\ retry.attempt > retry.maxRetries
    /\ retry' = [retry EXCEPT !.thrown = retry.lastError, !.pc = "thrown"]
    /\ UNCHANGED <<extraction, pc, verification, previous, passes, dashboard, chat, raw>>

NextRetry == Attempt \/ Backoff \/ Exhausted

\* fn's promise settles and the timer fires: a pending step is taken.
SpecRetry == InitRetry /\ [][NextRetry]_vars /\ WF_vars(NextRetry)

\* --------------------------------------------------- extraction converters
\* Both converters build an ExtractionResult; of its fields the model keeps
\* those the verification engine and the dashboard read.
TypeError == [kind |-> "TypeError"]

componentLabelsOf(components) == [i \in 1..Len(components) |-> components[i].label]

componentAmountsOfNonZero(components) ==
    LET amounts == [i \in 1..Len(components) |-> components[i].amount]
        nonZero(amount) == amount # 0
    IN  SelectSeq(amounts, nonZero)

componentAmountsOf(components) == [i \in 1..Len(components) |-> components[i].amount]

\* `${section} (${column})`
withColumn(string, column) ==
    <<named(string), text(" ("), named(column), text(")")>>

\* value || fallback, for a string: the empty string is falsy
orElse(value, fallback) == IF value = "" THEN fallback ELSE value

sofpOf(bsTotals) ==
    IF bsTotals = undefined THEN <<>>
    ELSE << statement("SOFP", [current |-> bsTotals.totalAssets],
                      [current |-> bsTotals.totalLiabilities],
                      [current |-> bsTotals.totalEquity]) >>

movementOf(m) ==
    [ accountName |-> m.accountName,
      opening |-> m.opening,
      additions |-> m.additions,
      deductions |-> m.deductions,
      statedClosing |-> m.statedClosing ]

warningOf(w) ==
    [ type |-> w.type,
      location |-> w.location,
      description |-> w.description,
      confidence |-> w.confidence ]

crossReferenceOf(cr, noteDescription) ==
    [ noteRef |-> cr.noteRef,
      noteDescription |-> noteDescription,
      noteTotal |-> cr.noteTotal,
      statementLineItem |-> cr.statementLineItem,
      statementAmount |-> cr.statementAmount,
      statementType |-> cr.statementType,
      isExpenseOrDeduction |-> cr.isExpenseOrDeduction ]

\* c.components.map(...) on a casting without components is a TypeError.
lacksComponents(castings) ==
    \E i \in 1..Len(castings) : "components" \notin DOMAIN castings[i]

convertToStandardFormat(parsed) ==
    LET bs == parsed.balanceSheetTotals
        columnIs(name) == {i \in 1..Len(bs) : bs[i].column = name}
        bsTotals ==
            IF columnIs("group_current") # {} THEN find(bs, columnIs("group_current"))
            ELSE IF columnIs("company_current") # {} THEN find(bs, columnIs("company_current"))
            ELSE IF columnIs("current") # {} THEN find(bs, columnIs("current"))
            ELSE find(bs, DOMAIN bs)
    IN  IF lacksComponents(parsed.castings) THEN TypeError
        ELSE [ companyName |-> parsed.companyName,
               financialYearEnd |-> parsed.financialYearEnd,
               statements |-> sofpOf(bsTotals),
               castingRelationships |->
                   [i \in 1..Len(parsed.castings) |->
                       LET c == parsed.castings[i]
                       IN  [ totalLabel |-> c.totalLabel,
                             totalAmount |-> c.totalAmount,
                             componentLabels |-> componentLabelsOf(c.components),
                             componentAmounts |-> componentAmountsOf(c.components),
                             section |-> withColumn(c.section, c.column) ]],
               movements |->
                   [i \in 1..Len(parsed.movements) |-> movementOf(parsed.movements[i])],
               crossReferences |->
                   [i \in 1..Len(parsed.crossReferences) |->
                       LET cr == parsed.crossReferences[i]
                       IN  crossReferenceOf(cr, withColumn(cr.noteDescription, cr.column))],
               warnings |->
                   [i \in 1..Len(parsed.warnings) |-> warningOf(parsed.warnings[i])] ]

preferredColumnOf(columns) ==
    IF columns # null /\ columns.hasGroupColumns THEN "group_current"
    ELSE IF columns # null /\ columns.hasCompanyColumns THEN "company_current"
    ELSE "current"

convertToExtractionResult(toolResult) ==
    LET preferredColumn == preferredColumnOf(toolResult.columns)
        preferred(record) == record.columnSource = preferredColumn
        filteredCastings == SelectSeq(toolResult.castings, preferred)
        filteredCrossRefs == SelectSeq(toolResult.crossReferences, preferred)
        filteredMovements == SelectSeq(toolResult.movements, preferred)
        bs == toolResult.balanceSheetTotals
        bsTotals == find(bs, {i \in 1..Len(bs) : preferred(bs[i])})
        metadata == toolResult.metadata
    IN  IF lacksComponents(filteredCastings) THEN TypeError
        ELSE [ companyName |->
                   IF metadata = null THEN "Unknown"
                   ELSE orElse(metadata.companyName, "Unknown"),
               financialYearEnd |->
                   IF metadata = null THEN ""
                   ELSE orElse(metadata.financialYearEnd, ""),
               statements |-> sofpOf(bsTotals),
               castingRelationships |->
                   [i \in 1..Len(filteredCastings) |->
                       LET c == filteredCastings[i]
                       IN  [ totalLabel |-> c.totalLabel,
                             totalAmount |-> c.totalAmount,
                             componentLabels |-> componentLabelsOf(c.components),
                             componentAmounts |-> componentAmountsOf(c.components),
                             section |-> withColumn(c.section, c.columnSource) ]],
               movements |->
                   [i \in 1..Len(filteredMovements) |-> movementOf(filteredMovements[i])],
               crossReferences |->
                   [i \in 1..Len(filteredCrossRefs) |->
                       crossReferenceOf(filteredCrossRefs[i],
                                        filteredCrossRefs[i].noteDescription)],
               warnings |->
                   [i \in 1..Len(toolResult.warnings) |-> warningOf(toolResult.warnings[i])] ]

\* ------------------------------------------------- extractWithToolCalling
maxIterations == 20

functionCall(name, args) == [functionCall |-> [name |-> name, args |-> args]]

noCandidate == [candidates |-> <<>>]

candidate(parts) == [candidates |-> <<[content |-> [parts |-> parts]]>>]

isFunctionCall(part) == "functionCall" \in DOMAIN part

functionResponse(name, response) ==
    [functionResponse |-> [name |-> name, response |-> response]]

ok(message) == [success |-> TRUE, message |-> message]

\* The body of the for loop for one function call: toolCallsCount++, the
\* switch on the tool name, and the response pushed for the call.
processCall(state, call) ==
    LET name == call.functionCall.name
        args == call.functionCall.args
        counted == [state EXCEPT !.toolCallsCount = @ + 1]
        answered(next, response) ==
            [next EXCEPT !.functionResponses = Append(@, functionResponse(name, response))]
    IN  CASE name = "identify_columns" ->
                 answered([counted EXCEPT !.toolCallResult.columns = args],
                          ok("Column structure identified"))
          [] name = "extract_metadata" ->
                 answered([counted EXCEPT !.toolCallResult.metadata = args],
                          ok("Metadata extracted"))
          [] name = "extract_balance_sheet_totals" ->
                 answered([counted EXCEPT
                              !.toolCallResult.balanceSheetTotals = Append(@, args)],
                          ok("Balance sheet totals recorded"))
          [] name = "extract_casting" ->
                 answered([counted EXCEPT !.toolCallResult.castings = Append(@, args)],
                          ok("Casting recorded"))
          [] name = "extract_cross_reference" ->
                 answered([counted EXCEPT
                              !.toolCallResult.crossReferences = Append(@, args)],
                          ok("Cross-reference recorded"))
          [] name = "extract_movement" ->
                 answered([counted EXCEPT !.toolCallResult.movements = Append(@, args)],
                          ok("Movement recorded"))
          [] name = "flag_warning" ->
                 answered([counted EXCEPT !.toolCallResult.warnings = Append(@, args)],
                          ok("Warning recorded"))
          [] name = "extraction_complete" ->
                 [answered([counted EXCEPT !.toolCallResult.completionInfo = args],
                           ok("Extraction complete"))
                      EXCEPT !.continueLoop = FALSE]
          [] OTHER ->
                 answered(counted,
                          [success |-> FALSE, error |-> <<"Unknown tool: ", name>>])

\* The for loop leaving out the calls that come before extraction_complete.
RECURSIVE processCallsFromComplete(_, _)
processCallsFromComplete(state, functionCalls) ==
    IF functionCalls = <<>> THEN state
    ELSE IF /\ Head(functionCalls).functionCall.name # "extraction_complete"
            /\ \E i \in 2..Len(functionCalls) :
                   functionCalls[i].functionCall.name = "extraction_complete"
         THEN processCallsFromComplete(state, Tail(functionCalls))
         ELSE processCallsFromComplete(processCall(state, Head(functionCalls)),
                                       Tail(functionCalls))

RECURSIVE processCalls(_, _)
processCalls(state, functionCalls) ==
    IF functionCalls = <<>> THEN state
    ELSE processCalls(processCall(state, Head(functionCalls)), Tail(functionCalls))

\* What the model is sent as tool arguments.
columnsArgs == [hasGroupColumns |-> TRUE, hasCompanyColumns |-> TRUE]

metadataArgs == [companyName |-> "Company Berhad", financialYearEnd |-> "31 December"]

castingArgs(columnSource, totalAmount, components) ==
    [ section |-> "Assets",
      columnSource |-> columnSource,
      totalLabel |-> "Total",
      totalAmount |-> totalAmount,
      components |-> components ]

component(label, amount) == [label |-> label, amount |-> amount]

bsTotalsArgs(columnSource, totalAssets, totalLiabilities, totalEquity) ==
    [ columnSource |-> columnSource,
      totalAssets |-> totalAssets,
      totalLiabilities |-> totalLiabilities,
      totalEquity |-> totalEquity ]

inColumn(record, columnSource) ==
    [f \in DOMAIN record \cup {"columnSource"} |->
        IF f = "columnSource" THEN columnSource ELSE record[f]]

completionArgs == [overallConfidence |-> 90]

\* The responses of the model: none, text only, tool calls beside text, an
\* unknown tool, and extraction_complete between other calls.
Responses ==
    { noCandidate,
      candidate(<<[text |-> "Done."]>>),
      candidate(<< functionCall("identify_columns", columnsArgs),
                   functionCall("extract_metadata", metadataArgs) >>),
      candidate(<< [text |-> "Extracting."],
                   functionCall("extract_casting",
                       castingArgs("group_current", RM(800),
                           <<component("A", RM(500)), component("B", RM(290))>>)) >>),
      candidate(<< functionCall("summarise_document", [pages |-> 3]) >>),
      candidate(<< functionCall("extract_balance_sheet_totals",
                       bsTotalsArgs("group_current", RM(1000), RM(600), RM(400))),
                   functionCall("extraction_complete", completionArgs),
                   functionCall("flag_warning", warning("MISSING_DATA", 90)) >>) }

\* chat.sendMessage settles: with a response, or rejected.
SendOutcomes ==
    { [settled |-> "resolved", response |-> r] : r \in Responses }
        \cup { [settled |-> "rejected"] }

afterSend(state, outcome) ==
    IF outcome.settled = "rejected"
    THEN [state EXCEPT !.sent = @ + 1, !.pc = "thrown"]
    ELSE [state EXCEPT !.sent = @ + 1, !.lastResponse = outcome.response]

InitToolCalling ==
    /\ extraction = noResult
    /\ pc = "extracting"
    /\ verification = noResult
    /\ previous = noResult
    /\ passes = noResult
    /\ dashboard = noResult
    /\ retry = noResult
    /\ raw = noResult
    /\ chat = [ pc |-> "start",
                toolCallResult |->
                    [ metadata |-> null, columns |-> null,
                      balanceSheetTotals |-> <<>>, castings |-> <<>>,
                      crossReferences |-> <<>>, movements |-> <<>>,
                      warnings |-> <<>>, completionInfo |-> null ],
                toolCallsCount |-> 0,
                iterations |-> 0,
                continueLoop |-> TRUE,
                lastResponse |-> undefined,
                functionResponses |-> <<>>,
                sent |-> 0 ]

\* lastResponse = await chat.sendMessage("Begin extraction. ...")
BeginExtraction ==
    /\ chat.pc = "start"
    /\ \E outcome \in SendOutcomes :
           chat' = afterSend([chat EXCEPT !.pc = "loop"], outcome)
    /\ UNCHANGED <<extraction, pc, verification, previous, passes, dashboard, retry, raw>>

\* One turn of the while loop, the sendMessage at its end included.
Iterate ==
    /\ chat.pc = "loop"
    /\ chat.continueLoop
    /\ chat.iterations < maxIterations
    /\ LET counted == [chat EXCEPT !.iterations = @ + 1, !.functionResponses = <<>>]
           candidates == chat.lastResponse.candidates
           functionCalls == SelectSeq(candidates[1].content.parts, isFunctionCall)
           processed == processCalls(counted, functionCalls)
       IN  IF candidates = <<>>
           THEN chat' = [counted EXCEPT !.pc = "finished"]
           ELSE IF functionCalls = <<>>
           THEN chat' = [counted EXCEPT !.continueLoop = FALSE, !.pc = "finished"]
           ELSE IF processed.continueLoop /\ Len(processed.functionResponses) > 0
           THEN \E outcome \in SendOutcomes : chat' = afterSend(processed, outcome)
           ELSE chat' = processed
    /\ UNCHANGED <<extraction, pc, verification, previous, passes, dashboard, retry, raw>>

\* The loop is over: convertToExtractionResult(toolCallResult) and return.
Finish ==
    /\ \/ chat.pc = "finished"
       \/ chat.pc = "loop" /\ ~(chat.continueLoop /\ chat.iterations < maxIterations)
    /\ LET converted == convertToExtractionResult(chat.toolCallResult)
       IN  IF converted = TypeError
           THEN /\ chat' = [chat EXCEPT !.pc = "thrown"]
                /\ UNCHANGED <<extraction, pc>>
           ELSE /\ chat' = [chat EXCEPT !.pc = "returned"]
                /\ extraction' = converted
                /\ pc' = "ready"
    /\ UNCHANGED <<verification, previous, passes, dashboard, retry, raw>>

NextToolCalling == BeginExtraction \/ Iterate \/ Finish

\* Every chat.sendMessage settles, so a pending step is taken.
SpecToolCalling ==
    InitToolCalling /\ [][NextToolCalling]_vars /\ WF_vars(NextToolCalling)

\* ------------------------------------------- extraction, then verification
\* What the model may return as the components of a casting: up to
\* MaxComponents labelled amounts, an amount of zero among them, or no
\* components field at all.
RawComponents ==
    { [i \in 1..Len(amounts) |-> component(labelNames[i], amounts[i])] :
        amounts \in SeqsUpTo({0, RM(500)}, MaxComponents) }

\* No casting, any one casting, or any casting followed by a casting with a
\* single component.
CastingLists(castings) ==
    SeqsUpTo(castings, 1)
        \cup { <<first, second>> :
                 first \in castings,
                 second \in { c \in castings :
                                 "components" \in DOMAIN c /\ Len(c.components) = 1 } }

withoutComponents(casting) ==
    [f \in DOMAIN casting \ {"components"} |-> casting[f]]

\* The castings of a ColumnAwareExtractionResult.
ColumnCastings ==
    { [ column |-> column, section |-> "Assets", totalLabel |-> "Total",
        totalAmount |-> RM(500), components |-> components ] :
            column \in {"group_current", "company_prior"},
            components \in RawComponents }
        \cup { [ column |-> "group_current", section |-> "Assets",
                 totalLabel |-> "Total", totalAmount |-> RM(500) ] }

ColumnTotals ==
    { [ column |-> "company_current", totalAssets |-> RM(1000),
        totalLiabilities |-> RM(600), totalEquity |-> RM(400) ],
      [ column |-> "group_current", totalAssets |-> RM(1000),
        totalLiabilities |-> RM(600), totalEquity |-> RM(350) ] }

parsedOf(balanceSheetTotals, castings, crossReferences, movements) ==
    [ companyName |-> "Company Berhad",
      financialYearEnd |-> "31 December",
      balanceSheetTotals |-> balanceSheetTotals,
      castings |-> castings,
      crossReferences |-> crossReferences,
      movements |-> movements,
      warnings |-> <<warning("MISSING_DATA", 90)>> ]

withColumnField(record, column) ==
    [f \in DOMAIN record \cup {"column"} |->
        IF f = "column" THEN column ELSE record[f]]

ParsedResults ==
    { parsedOf(<<>>, c, <<>>, <<>>) : c \in CastingLists(ColumnCastings) }
    \cup { parsedOf(bs, <<>>, x, m) :
             bs \in SeqsUpTo(ColumnTotals, MaxRecords),
             x \in SeqsUpTo({withColumnField(r, "group_current") :
                                r \in MixedCrossReferences}, 1),
             m \in SeqsUpTo(MixedMovements, 1) }

\* The castings recorded by the tool calls.
ToolCastings ==
    { castingArgs(columnSource, RM(500), components) :
        columnSource \in {"group_current", "current"},
        components \in RawComponents }
        \cup { withoutComponents(castingArgs(columnSource, RM(500), <<>>)) :
                 columnSource \in {"group_current", "current"} }

toolResultOf(columns, balanceSheetTotals, castings, crossReferences, movements) ==
    [ metadata |-> metadataArgs,
      columns |-> columns,
      balanceSheetTotals |-> balanceSheetTotals,
      castings |-> castings,
      crossReferences |-> crossReferences,
      movements |-> movements,
      warnings |-> <<warning("MISSING_DATA", 90)>>,
      completionInfo |-> completionArgs ]

ToolResults ==
    { toolResultOf(columns, <<>>, c, <<>>, <<>>) :
        columns \in {null, columnsArgs},
        c \in CastingLists(ToolCastings) }
    \cup { toolResultOf(columns, bs, <<>>, x, m) :
             columns \in {null, columnsArgs,
                          [hasGroupColumns |-> FALSE, hasCompanyColumns |-> TRUE]},
             bs \in SeqsUpTo({bsTotalsArgs(t.column, t.totalAssets,
                                           t.totalLiabilities, t.totalEquity) :
                                 t \in ColumnTotals}, MaxRecords),
             x \in SeqsUpTo({inColumn(r, "group_current") :
                                r \in MixedCrossReferences}, 1),
             m \in SeqsUpTo({inColumn(r, "current") : r \in MixedMovements}, 1) }

InitConvert ==
    /\ extraction = noResult
    /\ pc = "extracting"
    /\ verification = noResult
    /\ previous = noResult
    /\ passes = noResult
    /\ dashboard = noResult
    /\ retry = noResult
    /\ chat = noResult
    /\ raw \in { [via |-> "single", parsed |-> p] : p \in ParsedResults }
                \cup { [via |-> "tools", toolResult |-> t] : t \in ToolResults }

\* extractWithSingleCall hands its parsed JSON to convertToStandardFormat.
ConvertToStandardFormat ==
    /\ pc = "extracting"
    /\ raw.via = "single"
    /\ LET converted == convertToStandardFormat(raw.parsed)
       IN  IF converted = TypeError
           THEN pc' = "thrown" /\ UNCHANGED extraction
           ELSE pc' = "ready" /\ extraction' = converted
    /\ UNCHANGED <<verification, previous, passes, dashboard, retry, chat, raw>>

\* extractWithToolCalling hands toolCallResult to convertToExtractionResult.
ConvertToExtractionResult ==
    /\ pc = "extracting"
    /\ raw.via = "tools"
    /\ LET converted == convertToExtractionResult(raw.toolResult)
       IN  IF converted = TypeError
           THEN pc' = "thrown" /\ UNCHANGED extraction
           ELSE pc' = "ready" /\ extraction' = converted
    /\ UNCHANGED <<verification, previous, passes, dashboard, retry, chat, raw>>

NextConvert == ConvertToStandardFormat \/ ConvertToExtractionResult \/ RunVerification

SpecConvert == InitConvert /\ [][NextConvert]_vars

\* ------------------------------------------------------------- properties

Done == pc = "done"

\* Every result of a VerificationResult: castings, movements,
\* cross-references and the balance-sheet result when there is one.
ResultsOf(v) ==
    v.castingResults \o v.movementResults \o v.crossReferenceResults
        \o (IF v.balanceSheetResult = undefined THEN <<>> ELSE <<v.balanceSheetResult>>)

RECURSIVE NonPassing(_)
NonPassing(results) ==
    IF results = <<>> THEN <<>>
    ELSE (IF Head(results).status # "pass" THEN <<Head(results)>> ELSE <<>>)
             \o NonPassing(Tail(results))

IdsOf(results) == [i \in 1..Len(results) |-> results[i].id]

\* C1: every result runVerification produces has status 'pass' if and only
\* if its variance is 0 (and is otherwise 'fail').
C1_StatusIffZeroVariance ==
    Done =>
        \A i \in 1..Len(ResultsOf(verification)) :
            LET r == ResultsOf(verification)[i]
            IN  /\ r.status \in {"pass", "fail"}
                /\ (r.status = "pass") <=> (r.variance = 0)

\* A run whose check is one cent out, and fails.
C1_Witness ==
    /\ Done
    /\ \E i \in 1..Len(ResultsOf(verification)) :
           /\ ResultsOf(verification)[i].variance = Cents(1)
           /\ ResultsOf(verification)[i].status = "fail"

\* C2: the exceptions list holds exactly one exception for each check that
\* does not pass and none for a check that passes; one casting of 790
\* against a stated 800 yields exactly one exception, of difference 10 and
\* severity low.
C2_OneExceptionPerFailure ==
    Done =>
        LET results == ResultsOf(verification)
            exceptions == verification.exceptions
        IN  /\ Len(exceptions) = Len(NonPassing(results))
            /\ \A i \in 1..Len(results) :
                   Cardinality({j \in 1..Len(exceptions) :
                                   exceptions[j].relatedCheckId = results[i].id})
                       = (IF results[i].status = "pass" THEN 0 ELSE 1)
            /\ (extraction = extractionOf(<<>>,
                                 <<castingRel(RM(800), 2, <<RM(500), RM(290)>>)>>,
                                 <<>>, <<>>, <<>>)
                  => /\ Len(exceptions) = 1
                     /\ exceptions[1].difference = RM(10)
                     /\ exceptions[1].severity = "low")

\* The 790-against-800 casting has been verified beside checks that pass
\* and checks that fail.
C2_Witness ==
    /\ Done
    /\ extraction.castingRelationships = <<castingRel(RM(800), 2, <<RM(500), RM(290)>>)>>
    /\ verification.exceptions[1].difference = RM(10)
    /\ verification.kpi.passed >= 1
    /\ Len(verification.exceptions) >= 2

\* C3: exception ids are 1, 2, ..., n, given to the failing castings in input
\* order, then the balance-sheet failure, then the failing movements, then
\* the failing cross-references; a passing check consumes no id.
C3_ExceptionIdsInOrder ==
    Done =>
        LET exceptions == verification.exceptions
            failing == NonPassing(verification.castingResults)
                         \o NonPassing(IF verification.balanceSheetResult = undefined
                                       THEN <<>> ELSE <<verification.balanceSheetResult>>)
                         \o NonPassing(verification.movementResults)
                         \o NonPassing(verification.crossReferenceResults)
        IN  /\ \A i \in 1..Len(exceptions) : exceptions[i].id = i
            /\ [i \in 1..Len(exceptions) |-> exceptions[i].relatedCheckId] = IdsOf(failing)

\* A run in which a casting passes before one that fails, and the balance
\* sheet, a movement and a cross-reference fail.
C3_Witness ==
    /\ Done
    /\ Len(verification.castingResults) = 2
    /\ verification.castingResults[1].status = "pass"
    /\ verification.castingResults[2].status = "fail"
    /\ verification.balanceSheetResult # undefined
    /\ verification.balanceSheetResult.status = "fail"
    /\ Len(NonPassing(verification.movementResults)) >= 1
    /\ Len(NonPassing(verification.crossReferenceResults)) >= 1
    /\ Len(verification.movementResults) = 2
    /\ verification.movementResults[1].status = "pass"

RECURSIVE ExactSum(_)
ExactSum(amounts) ==
    IF amounts = <<>> THEN 0 ELSE Head(amounts) + ExactSum(Tail(amounts))

ComponentAmountsOf(result) ==
    [i \in 1..Len(result.components) |-> result.components[i].amount]

WholeCents(amounts) == \A i \in 1..Len(amounts) : amounts[i] % 10 = 0

\* C4: a casting whose component amounts, whole numbers of cents, sum exactly
\* to the stated total passes with variance 0, and its calculatedTotal is the
\* exact sum of the amounts.
C4_ExactCastingPasses ==
    Done =>
        \A k \in 1..Len(verification.castingResults) :
            LET r == verification.castingResults[k]
                amounts == ComponentAmountsOf(r)
            IN  (WholeCents(amounts) /\ ExactSum(amounts) = r.statedTotal)
                    => /\ r.status = "pass"
                       /\ r.variance = 0
                       /\ r.calculatedTotal = ExactSum(amounts)

\* 0.10 + 0.20 has been cast against a stated 0.30.
C4_Witness ==
    /\ Done
    /\ Len(verification.castingResults) = 1
    /\ ComponentAmountsOf(verification.castingResults[1]) = <<Cents(10), Cents(20)>>
    /\ verification.castingResults[1].statedTotal = Cents(30)
    /\ verification.castingResults[1].calculatedTotal = Cents(30)
    /\ verification.castingResults[1].status = "pass"

SeverityByMagnitude(difference) ==
    IF difference >= 10000 * 1000 THEN "high"
    ELSE IF difference >= 1000 * 1000 THEN "medium"
    ELSE "low"

\* C5: a failing balance-equation check yields an exception of severity
\* 'high' whatever the variance, counted in kpi.highSeverity; an exception
\* of any other type takes its severity from the magnitude of its variance.
C5_BalanceSheetAlwaysHigh ==
    Done =>
        LET exceptions == verification.exceptions
            bs == verification.balanceSheetResult
            high == {j \in 1..Len(exceptions) : exceptions[j].severity = "high"}
        IN  /\ (bs # undefined /\ bs.status # "pass")
                  => \E j \in high :
                        /\ exceptions[j].type = "Balance Sheet Imbalance"
                        /\ exceptions[j].relatedCheckId = bs.id
            /\ \A j \in 1..Len(exceptions) :
                   IF exceptions[j].type = "Balance Sheet Imbalance"
                   THEN exceptions[j].severity = "high"
                   ELSE exceptions[j].severity = SeverityByMagnitude(exceptions[j].difference)
            /\ verification.kpi.highSeverity = Cardinality(high)

\* The balance sheet is out by 50, which by magnitude alone would be low.
C5_Witness ==
    /\ Done
    /\ verification.balanceSheetResult # undefined
    /\ verification.balanceSheetResult.variance = RM(50)
    /\ verification.kpi.highSeverity = 1
    /\ verification.kpi.lowSeverity = 0

\* The statement the balance check reads: the first one of type SOFP.
FirstSOFPs ==
    {i \in 1..Len(extraction.statements) :
        /\ extraction.statements[i].statementType = "SOFP"
        /\ \A j \in 1..(i - 1) : extraction.statements[j].statementType # "SOFP"}

LacksATotal(st) ==
    \/ st.totalAssets = undefined
    \/ st.totalLiabilities = undefined
    \/ st.totalEquity = undefined

OtherChecks ==
    Len(extraction.castingRelationships) + Len(extraction.movements)
        + Len(extraction.crossReferences)

BalanceExceptions(v) ==
    {j \in 1..Len(v.exceptions) : v.exceptions[j].type = "Balance Sheet Imbalance"}

\* C6: with no statement of type SOFP, or with the SOFP statement lacking one
\* of its three totals, balanceSheetResult is undefined, totalChecks counts
\* only the other checks and no 'Balance Sheet Imbalance' exception exists;
\* with the three totals present the balance check runs once, on the current
\* totals, and is counted once.
C6_ConditionalBalanceCheck ==
    Done =>
        IF \A i \in FirstSOFPs : LacksATotal(extraction.statements[i])
        THEN /\ verification.balanceSheetResult = undefined
             /\ verification.kpi.totalChecks = OtherChecks
             /\ BalanceExceptions(verification) = {}
        ELSE /\ verification.balanceSheetResult # undefined
             /\ verification.kpi.totalChecks = OtherChecks + 1
             /\ Cardinality(BalanceExceptions(verification)) <= 1
             /\ \A i \in FirstSOFPs :
                    /\ verification.balanceSheetResult.totalAssets
                           = extraction.statements[i].totalAssets.current
                    /\ verification.balanceSheetResult.totalLiabilities
                           = extraction.statements[i].totalLiabilities.current
                    /\ verification.balanceSheetResult.totalEquity
                           = extraction.statements[i].totalEquity.current

\* A run on a SOFP statement that carries totalAssets and totalLiabilities
\* but no totalEquity.
C6_Witness ==
    /\ Done
    /\ Len(extraction.statements) >= 1
    /\ extraction.statements[1].statementType = "SOFP"
    /\ extraction.statements[1].totalAssets # undefined
    /\ extraction.statements[1].totalLiabilities # undefined
    /\ extraction.statements[1].totalEquity = undefined
    /\ verification.balanceSheetResult = undefined
    /\ verification.kpi.totalChecks = 0

\* C9: severity is 'high' from 10000 up, 'medium' from 1000 up to below 10000
\* and 'low' below 1000, so that 1 and 999 are low, 1000 and 9999 medium and
\* 10000 high; every casting, movement and cross-reference exception carries
\* the severity of its own variance.
C9_SeverityThresholds ==
    Done =>
        \A j \in 1..Len(verification.exceptions) :
            LET ex == verification.exceptions[j]
            IN  ex.type # "Balance Sheet Imbalance" =>
                    /\ ex.difference >= 10000 * 1000 => ex.severity = "high"
                    /\ (ex.difference >= 1000 * 1000 /\ ex.difference < 10000 * 1000)
                           => ex.severity = "medium"
                    /\ ex.difference < 1000 * 1000 => ex.severity = "low"
                    /\ ex.difference \in {1 * 1000, 999 * 1000} => ex.severity = "low"
                    /\ ex.difference \in {1000 * 1000, 9999 * 1000} => ex.severity = "medium"
                    /\ ex.difference = 10000 * 1000 => ex.severity = "high"

\* A cross-reference out by exactly 1000 has been reported, as medium.
C9_Witness ==
    /\ Done
    /\ Len(verification.exceptions) = 1
    /\ verification.exceptions[1].type = "Cross Reference Mismatch"
    /\ verification.exceptions[1].difference = 1000 * 1000
    /\ verification.exceptions[1].severity = "medium"

\* C10: passRate is passed / totalChecks * 100 rounded to the nearest
\* integer, and 100 when totalChecks is 0; 8 passes among 10 checks give a
\* passRate of 80 with 2 exceptions.
C10_PassRate ==
    Done =>
        LET kpi == verification.kpi
            results == ResultsOf(verification)
            passed == Cardinality({i \in 1..Len(results) : results[i].status = "pass"})
        IN  /\ kpi.totalChecks = Len(results)
            /\ kpi.passed = passed
            /\ IF Len(results) = 0 THEN kpi.passRate = 100
               ELSE /\ 2 * Len(results) * kpi.passRate <= 200 * passed + Len(results)
                    /\ 200 * passed + Len(results) < 2 * Len(results) * (kpi.passRate + 1)
            /\ (Len(results) = 10 /\ passed = 8)
                   => (kpi.passRate = 80 /\ kpi.exceptionsCount = 2)

\* Ten checks have been run, of which eight passed.
C10_Witness ==
    /\ Done
    /\ verification.kpi.totalChecks = 10
    /\ verification.kpi.passed = 8
    /\ verification.kpi.failed = 2
    /\ verification.kpi.passRate = 80

WellFormed(rel) == Len(rel.componentLabels) = Len(rel.componentAmounts)

\* The results with their id and timestamp left out.
WithoutIds(results) ==
    [i \in 1..Len(results) |-> [results[i] EXCEPT !.id = "", !.timestamp = ""]]

\* The results of the well-formed relationships among rels.
RECURSIVE OfWellFormed(_, _)
OfWellFormed(rels, results) ==
    IF rels = <<>> THEN <<>>
    ELSE (IF WellFormed(Head(rels)) THEN <<Head(results)>> ELSE <<>>)
             \o OfWellFormed(Tail(rels), Tail(results))

\* C7: a casting relationship whose componentLabels and componentAmounts
\* differ in length is never reported as 'pass' (it fails or is skipped),
\* runVerification does not throw, and every other record gets the result it
\* gets when the malformed record is absent.
C7_MalformedCastingNeverPasses ==
    Done =>
        LET rels == extraction.castingRelationships
            absent == runVerification(
                          [extraction EXCEPT !.castingRelationships = SelectSeq(rels, WellFormed)],
                          verification.verifiedAt, "r0")
        IN  /\ \A k \in 1..Len(rels) :
                   ~WellFormed(rels[k]) => verification.castingResults[k].status # "pass"
            /\ WithoutIds(OfWellFormed(rels, verification.castingResults))
                   = WithoutIds(absent.castingResults)
            /\ WithoutIds(verification.movementResults) = WithoutIds(absent.movementResults)
            /\ WithoutIds(verification.crossReferenceResults)
                   = WithoutIds(absent.crossReferenceResults)
            /\ WithoutIds(optional(verification.balanceSheetResult))
                   = WithoutIds(optional(absent.balanceSheetResult))

WithoutTimestamps(results) ==
    [i \in 1..Len(results) |-> [results[i] EXCEPT !.timestamp = ""]]

\* C8: the engine is deterministic: a second run on the same input returns
\* the same movement results in every field but the timestamp, and the same
\* results, exceptions (relatedCheckId included), KPIs and conclusion.
C8_Deterministic ==
    (Done /\ previous # noResult) =>
        /\ WithoutTimestamps(verification.movementResults)
               = WithoutTimestamps(previous.movementResults)
        /\ WithoutTimestamps(ResultsOf(verification))
               = WithoutTimestamps(ResultsOf(previous))
        /\ verification.exceptions = previous.exceptions
        /\ verification.kpi = previous.kpi
        /\ verification.conclusionSummary = previous.conclusionSummary
        /\ verification.conclusionItems = previous.conclusionItems
        /\ verification.conclusionNote = previous.conclusionNote

\* A cross-reference of an expense or deduction whose note total and
\* statement amount are one magnitude with opposite signs.
SignConventionOnly(x) ==
    /\ x.isExpenseOrDeduction
    /\ x.noteTotal # 0
    /\ x.noteTotal = 0 - x.statementAmount

\* C11: a cross-reference flagged isExpenseOrDeduction whose noteTotal and
\* statementAmount have the same magnitude and opposite signs is compared
\* under the sign convention: the difference of sign is explained by the
\* convention and is not counted into the variance as a numeric mismatch, so
\* the check reports no variance, does not fail and raises no exception.
C11_SignConventionExplained ==
    Done =>
        \A k \in 1..Len(extraction.crossReferences) :
            SignConventionOnly(extraction.crossReferences[k]) =>
                LET r == verification.crossReferenceResults[k]
                IN  /\ r.variance = 0
                    /\ r.status = "pass"
                    /\ \A e \in 1..Len(verification.exceptions) :
                           verification.exceptions[e].relatedCheckId # r.id

\* The description shows the amount, formatted as the engine formats amounts.
Embeds(description, amount) ==
    \E i \in 1..Len(description) :
        /\ description[i].kind = "value"
        /\ description[i].value = formatRM(amount)

\* C12: the description of every exception, of each of the four types,
\* embeds the stated amount, the calculated amount and their difference.
C12_DescriptionEmbedsAmounts ==
    Done =>
        \A e \in 1..Len(verification.exceptions) :
            LET ex == verification.exceptions[e]
            IN  /\ Embeds(ex.description, ex.statedAmount)
                /\ Embeds(ex.description, ex.calculatedAmount)
                /\ Embeds(ex.description, ex.difference)

\* C13: runVerification passes the extraction warnings through unchanged:
\* needsHumanReview is extraction.warnings, the same warnings in the same
\* order; the warnings change no check result, KPI counter or exception (the
\* run returns what it returns for the same input without its warnings, the
\* needsHumanReview list apart); no exception is of type 'Requires Human
\* Review'.
C13_WarningsPassThrough ==
    Done =>
        /\ verification.needsHumanReview = extraction.warnings
        /\ \E stream \in RandomStreams :
               [verification EXCEPT !.needsHumanReview = <<>>]
                   = runVerification([extraction EXCEPT !.warnings = <<>>],
                                     verification.verifiedAt, stream)
        /\ \A e \in 1..Len(verification.exceptions) :
               verification.exceptions[e].type # "Requires Human Review"

\* A run on an input with two different warnings, one of low confidence, and
\* a failing check: both warnings are handed on, in their order.
C13_Witness ==
    /\ Done
    /\ extraction.warnings = <<warning("MISSING_DATA", 90), warning("AMBIGUOUS_AMOUNT", 40)>>
    /\ verification.needsHumanReview = extraction.warnings
    /\ verification.kpi.failed >= 1
    /\ verification.kpi.needsReview = 0

\* The four result lists of a run, or of the passes under way.
ResultListsOf(v) ==
    <<v.castingResults, optional(v.balanceSheetResult), v.movementResults,
      v.crossReferenceResults>>

\* C14: the four passes are mutually independent.  Run in any order they
\* leave the extraction unchanged, each writes only its own result list, and
\* after the join the four result lists, the exceptions with their ids and
\* the KPIs (the whole returned object) are those of the sequential run at
\* the same clock reading on the same random stream.
C14_PassesIndependent ==
    /\ [][ /\ extraction' = extraction
           /\ (pc = "running" /\ pc' = "running") =>
                  Cardinality({ i \in 1..4 :
                      ResultListsOf(passes')[i] # ResultListsOf(passes)[i] }) <= 1
         ]_vars
    /\ []( (Done /\ passes # noResult) =>
               verification = runVerification(extraction, passes.now, passes.stream) )

\* The same with the id of every result and the relatedCheckId of every
\* exception left out of the comparison.
WithoutRelatedCheckIds(exceptions) ==
    [e \in 1..Len(exceptions) |-> [exceptions[e] EXCEPT !.relatedCheckId = ""]]

WithoutResultIds(v) ==
    [v EXCEPT !.castingResults = WithoutIds(@),
              !.movementResults = WithoutIds(@),
              !.crossReferenceResults = WithoutIds(@),
              !.balanceSheetResult = IF @ = undefined THEN @ ELSE WithoutIds(<<@>>)[1],
              !.exceptions = WithoutRelatedCheckIds(@)]

PassesIndependentButIds ==
    /\ [][ /\ extraction' = extraction
           /\ (pc = "running" /\ pc' = "running") =>
                  Cardinality({ i \in 1..4 :
                      ResultListsOf(passes')[i] # ResultListsOf(passes)[i] }) <= 1
         ]_vars
    /\ []( (Done /\ passes # noResult) =>
               WithoutResultIds(verification)
                   = WithoutResultIds(runVerification(extraction, passes.now, passes.stream)) )

\* An extraction with no statements, casting relationships, movements or
\* cross-references.
NothingToCheck(ext) ==
    /\ ext.statements = <<>>
    /\ ext.castingRelationships = <<>>
    /\ ext.movements = <<>>
    /\ ext.crossReferences = <<>>

\* C15: on an extraction whose statements, castingRelationships, movements
\* and crossReferences are all empty runVerification returns (it does not
\* throw) a result with totalChecks 0, passed 0, failed 0, passRate 100, no
\* exceptions, no balanceSheetResult and no conclusion items.
C15_EmptyExtraction ==
    /\ (pc = "ready" /\ NothingToCheck(extraction)) => ENABLED RunVerification
    /\ (Done /\ NothingToCheck(extraction)) =>
           /\ verification # noResult
           /\ verification.kpi.totalChecks = 0
           /\ verification.kpi.passed = 0
           /\ verification.kpi.failed = 0
           /\ verification.kpi.passRate = 100
           /\ verification.kpi.exceptionsCount = 0
           /\ verification.exceptions = <<>>
           /\ verification.balanceSheetResult = undefined
           /\ verification.conclusionItems = <<>>
           /\ verification.castingResults = <<>>
           /\ verification.movementResults = <<>>
           /\ verification.crossReferenceResults = <<>>

\* A run on the empty extraction has returned.
C15_Witness ==
    /\ Done
    /\ extraction = extractionOf(<<>>, <<>>, <<>>, <<>>, <<>>)
    /\ verification.kpi.totalChecks = 0
    /\ verification.kpi.passRate = 100

Shown == dashboard # noResult

\* C16: row i of horizontalCasting shows the additions and the deductions of
\* movement record i, the record movement result i was computed from, and
\* row i of crossReferenceChecks shows the statementLineItem of
\* cross-reference i, also when two movements share an accountName or two
\* cross-references share noteRef and noteDescription.
C16_RowsShowTheirOwnRecord ==
    Shown =>
        /\ Len(dashboard.horizontalCasting) = Len(extraction.movements)
        /\ \A i \in 1..Len(extraction.movements) :
               /\ dashboard.horizontalCasting[i].additions
                      = breakdown("+", extraction.movements[i].additions)
               /\ dashboard.horizontalCasting[i].deductions
                      = breakdown("-", extraction.movements[i].deductions)
        /\ Len(dashboard.crossReferenceChecks) = Len(extraction.crossReferences)
        /\ \A i \in 1..Len(extraction.crossReferences) :
               dashboard.crossReferenceChecks[i].lineItem
                   = extraction.crossReferences[i].statementLineItem

\* No two movements of the input share an account name and no two
\* cross-references share note reference and description.
DistinctKeys(ext) ==
    /\ \A i, j \in 1..Len(ext.movements) :
           ext.movements[i].accountName = ext.movements[j].accountName => i = j
    /\ \A i, j \in 1..Len(ext.crossReferences) :
           (/\ ext.crossReferences[i].noteRef = ext.crossReferences[j].noteRef
            /\ ext.crossReferences[i].noteDescription
                   = ext.crossReferences[j].noteDescription) => i = j

RowsShowTheirOwnRecordWhenKeysDistinct ==
    (Shown /\ DistinctKeys(extraction)) =>
        /\ \A i \in 1..Len(extraction.movements) :
               /\ dashboard.horizontalCasting[i].additions
                      = breakdown("+", extraction.movements[i].additions)
               /\ dashboard.horizontalCasting[i].deductions
                      = breakdown("-", extraction.movements[i].deductions)
        /\ \A i \in 1..Len(extraction.crossReferences) :
               dashboard.crossReferenceChecks[i].lineItem
                   = extraction.crossReferences[i].statementLineItem

\* An amount to the nearest cent, a half cent going up.
ToCent(amount) == ((amount + 5) \div 10) * 10

\* The sum of the amounts, each taken to the nearest cent.
SumToCent(amounts) == ExactSum([i \in 1..Len(amounts) |-> ToCent(amounts[i])])

\* C17: for every movement, totalAdditions is the sum of the addition
\* amounts and totalDeductions the sum of the deduction amounts,
\* calculatedClosing is opening + totalAdditions - totalDeductions and the
\* variance is |calculatedClosing - statedClosing| (sums and variance at cent
\* precision; exactly so when the amounts are whole cents); the check passes
\* exactly at variance 0.  Opening 1000, additions [200], deductions [50] and
\* stated closing 1150 give calculatedClosing 1150, variance 0, pass.  The
\* result of a movement is the result it gets alone: it depends neither on
\* the other movements nor on its place in the list.
C17_MovementReconciliation ==
    Done =>
        \A k \in 1..Len(extraction.movements) :
            LET m == extraction.movements[k]
                r == verification.movementResults[k]
                additions == amountsOf(m.additions)
                deductions == amountsOf(m.deductions)
            IN  /\ r.totalAdditions = SumToCent(additions)
                /\ r.totalDeductions = SumToCent(deductions)
                /\ r.calculatedClosing
                       = ToCent(m.opening) + r.totalAdditions - r.totalDeductions
                /\ r.variance = Abs(ToCent(r.calculatedClosing - m.statedClosing))
                /\ (r.status = "pass") <=> (r.variance = 0)
                /\ WholeCents(<<m.opening, m.statedClosing>> \o additions \o deductions) =>
                       /\ r.totalAdditions = ExactSum(additions)
                       /\ r.totalDeductions = ExactSum(deductions)
                       /\ r.calculatedClosing
                              = m.opening + ExactSum(additions) - ExactSum(deductions)
                       /\ r.variance = Abs(r.calculatedClosing - m.statedClosing)
                /\ (/\ m.opening = RM(1000)
                    /\ additions = <<RM(200)>>
                    /\ deductions = <<RM(50)>>
                    /\ m.statedClosing = RM(1150)) =>
                       /\ r.calculatedClosing = RM(1150)
                       /\ r.variance = 0
                       /\ r.status = "pass"
                /\ WithoutIds(<<r>>)
                       = WithoutIds(<<verifyMovement(m, verification.verifiedAt, "r0", 1)>>)

\* The movement 1000 + 200 - 50 against a stated 1150 has passed in second
\* place, behind a movement that fails.
C17_Witness ==
    /\ Done
    /\ Len(extraction.movements) = 2
    /\ extraction.movements[2] = movement("PPE", RM(1000), <<RM(200)>>, <<RM(50)>>, RM(1150))
    /\ verification.movementResults[2].totalAdditions = RM(200)
    /\ verification.movementResults[2].totalDeductions = RM(50)
    /\ verification.movementResults[2].calculatedClosing = RM(1150)
    /\ verification.movementResults[2].status = "pass"
    /\ verification.movementResults[1].status = "fail"

\* C18: the balance check reads the current-period totals of the statement
\* of financial position and nothing else: calculatedLiabilitiesPlusEquity
\* is totalLiabilities + totalEquity and the variance is
\* |totalAssets - calculatedLiabilitiesPlusEquity| (at cent precision;
\* exactly so for totals in whole cents).  Assets 1000, liabilities 600 and
\* equity 350 give 950, variance 50, fail.
C18_BalanceEquation ==
    (Done /\ verification.balanceSheetResult # undefined) =>
        \A i \in FirstSOFPs :
            LET sofp == extraction.statements[i]
                r == verification.balanceSheetResult
                a == sofp.totalAssets.current
                l == sofp.totalLiabilities.current
                e == sofp.totalEquity.current
            IN  /\ r.totalAssets = a
                /\ r.totalLiabilities = l
                /\ r.totalEquity = e
                /\ r.calculatedLiabilitiesPlusEquity = SumToCent(<<l, e>>)
                /\ r.variance = Abs(ToCent(a - r.calculatedLiabilitiesPlusEquity))
                /\ (r.status = "pass") <=> (r.variance = 0)
                /\ WholeCents(<<a, l, e>>) =>
                       /\ r.calculatedLiabilitiesPlusEquity = l + e
                       /\ r.variance = Abs(a - (l + e))
                /\ (a = RM(1000) /\ l = RM(600) /\ e = RM(350)) =>
                       /\ r.calculatedLiabilitiesPlusEquity = RM(950)
                       /\ r.variance = RM(50)
                       /\ r.status = "fail"

\* Assets 1000 against liabilities 600 and equity 350 have been checked.
C18_Witness ==
    /\ Done
    /\ verification.balanceSheetResult # undefined
    /\ verification.balanceSheetResult.totalAssets = RM(1000)
    /\ verification.balanceSheetResult.totalLiabilities = RM(600)
    /\ verification.balanceSheetResult.totalEquity = RM(350)
    /\ verification.balanceSheetResult.calculatedLiabilitiesPlusEquity = RM(950)
    /\ verification.balanceSheetResult.variance = RM(50)
    /\ verification.balanceSheetResult.status = "fail"

C20_NoComponents ==
    Done =>
        \A k \in 1..Len(verification.castingResults) :
            LET r == verification.castingResults[k]
                stated == extraction.castingRelationships[k].totalAmount
            IN  r.components = <<>> =>
                    /\ r.calculatedTotal = 0
                    /\ r.statedTotal = stated
                    /\ r.variance = Abs(ToCent(0 - stated))
                    /\ (r.status = "pass") <=> (r.variance = 0)
                    /\ r.status \in {"pass", "fail"}
                    /\ stated = 0 => (r.status = "pass" /\ r.variance = 0)
                    /\ (stated # 0 /\ WholeCents(<<stated>>)) =>
                           (r.status = "fail" /\ r.variance = Abs(stated))

\* A casting with no components and a stated total of 500 has failed with
\* variance 500.
C20_Witness ==
    /\ Done
    /\ Len(extraction.castingRelationships) = 1
    /\ extraction.castingRelationships[1].componentLabels = <<>>
    /\ extraction.castingRelationships[1].componentAmounts = <<>>
    /\ extraction.castingRelationships[1].totalAmount = RM(500)
    /\ verification.castingResults[1].calculatedTotal = 0
    /\ verification.castingResults[1].variance = RM(500)
    /\ verification.castingResults[1].status = "fail"

\* The stated and the calculated value of a result, by its kind of check.
StatedOf(r) ==
    CASE r.checkType = "vertical" -> r.statedTotal
      [] r.checkType = "balance_equation" -> r.totalAssets
      [] r.checkType = "horizontal" -> r.statedClosing
      [] r.checkType = "cross_reference" -> r.statementAmount

CalculatedOf(r) ==
    CASE r.checkType = "vertical" -> r.calculatedTotal
      [] r.checkType = "balance_equation" -> r.calculatedLiabilitiesPlusEquity
      [] r.checkType = "horizontal" -> r.calculatedClosing
      [] r.checkType = "cross_reference" -> r.noteAmount

RECURSIVE GCD(_, _)
GCD(a, b) == IF b = 0 THEN a ELSE GCD(b, a % b)

\* p is variance / stated * 100 rounded to two decimals, in hundredths of a
\* percent, for variance >= 0 and stated > 0: p - 1/2 <= 10000 v / s < p + 1/2.
\* The fraction is taken in lowest terms and its whole part apart, so that
\* every product stays within 32 bits.
IsPercentage(p, variance, stated) ==
    LET g == GCD(variance, stated)
        v == variance \div g
        st == stated \div g
        rest == p - 10000 * (v \div st)
        d == 10000 * (v % st) - rest * st
    IN  (0 - st <= 2 * d) /\ (2 * d < st)

\* C21: the variance of every result is never negative and is
\* |calculated - stated| at cent precision; the variance percentage of a
\* casting is variance / |stated| * 100 rounded to two decimals when stated
\* is not 0, is 0 when stated is 0 and the variance is 0, and is 100 when
\* stated is 0 and the variance is not 0.
C21_VarianceAndPercentage ==
    Done =>
        /\ \A i \in 1..Len(ResultsOf(verification)) :
               LET r == ResultsOf(verification)[i]
               IN  /\ r.variance >= 0
                   /\ r.variance % Cents(1) = 0
                   /\ r.variance = Abs(ToCent(CalculatedOf(r) - StatedOf(r)))
        /\ \A k \in 1..Len(verification.castingResults) :
               LET r == verification.castingResults[k]
               IN  /\ (r.statedTotal = 0 /\ r.variance = 0) => r.variancePercentage = 0
                   /\ (r.statedTotal = 0 /\ r.variance # 0) => r.variancePercentage = 100 * 100
                   /\ r.statedTotal # 0 =>
                          IsPercentage(r.variancePercentage, r.variance, Abs(r.statedTotal))

\* A casting of 500 against a stated total of 0: variance 500, 100 %.
C21_Witness ==
    /\ Done
    /\ Len(verification.castingResults) = 1
    /\ verification.castingResults[1].statedTotal = 0
    /\ verification.castingResults[1].calculatedTotal = RM(500)
    /\ verification.castingResults[1].variance = RM(500)
    /\ verification.castingResults[1].variancePercentage = 100 * 100

Rank(severity) ==
    CASE severity = "high" -> 0 [] severity = "medium" -> 1 [] severity = "low" -> 2

\* Exception a comes before exception b in the conclusion: by severity, and
\* by exception id within one severity.
Before(a, b) ==
    \/ Rank(a.severity) < Rank(b.severity)
    \/ (a.severity = b.severity /\ a.id < b.id)

\* The place of exception ex among the conclusion items.
PlaceOf(ex, exceptions) ==
    1 + Cardinality({e \in 1..Len(exceptions) : Before(exceptions[e], ex)})

\* C22: conclusionItems has exactly one item per exception; every 'high'
\* item comes before every 'medium' item and every 'medium' before every
\* 'low'; items of equal severity keep the order of their exception ids; the
\* priority of an item is the severity of its exception (whose location and
\* amounts it cites).
C22_ConclusionItemsSorted ==
    Done =>
        LET items == verification.conclusionItems
            exceptions == verification.exceptions
        IN  /\ Len(items) = Len(exceptions)
            /\ \A i, j \in 1..Len(items) :
                   i < j => Rank(items[i].priority) <= Rank(items[j].priority)
            /\ \A e \in 1..Len(exceptions) :
                   LET ex == exceptions[e]
                       item == items[PlaceOf(ex, exceptions)]
                   IN  /\ item.priority = ex.severity
                       /\ item.note = ex.location
                       /\ Embeds(item.description, ex.statedAmount)
                       /\ Embeds(item.description, ex.calculatedAmount)
                       /\ Embeds(item.description, ex.difference)

\* Exceptions low, high, medium, high in the order of their ids: the items
\* are the balance sheet and the note (high), the movement (medium) and the
\* casting (low).
C22_Witness ==
    /\ Done
    /\ Len(verification.exceptions) = 4
    /\ [e \in 1..4 |-> verification.exceptions[e].severity]
           = <<"low", "high", "medium", "high">>
    /\ [i \in 1..4 |-> verification.conclusionItems[i].priority]
           = <<"high", "high", "medium", "low">>
    /\ verification.conclusionItems[1].note = "Statement of Financial Position"
    /\ verification.conclusionItems[2].note = "Note 9"
    /\ verification.conclusionItems[4].note = "Assets"

\* The string has the literal piece s.
Says(string, s) ==
    \E i \in 1..Len(string) : string[i].kind = "text" /\ string[i].text = s

Balances == "Balance Sheet balances correctly (Assets = Liabilities + Equity)."

DoesNotBalance == "WARNING: Balance Sheet does not balance - variance of "

AllVerified == "All arithmetic has been verified by deterministic code with 100% accuracy."

\* C23: the conclusion note calls out the balance sheet exactly when the
\* balance check ran: it says the balance sheet balances when
\* balanceSheetResult passed, carries a WARNING with the variance when it
\* failed, and says nothing of the balance sheet when it is undefined; it
\* says that all arithmetic is verified if and only if passed = totalChecks.
C23_ConclusionNote ==
    Done =>
        LET note == verification.conclusionNote
            bs == verification.balanceSheetResult
        IN  /\ Says(note, Balances) <=> (bs # undefined /\ bs.status = "pass")
            /\ Says(note, DoesNotBalance) <=> (bs # undefined /\ bs.status # "pass")
            /\ Says(note, DoesNotBalance) => Embeds(note, bs.variance)
            /\ bs = undefined =>
                   \/ note = <<text(AllVerified)>>
                   \/ note = << shown(verification.kpi.passed), text(" of "),
                                shown(verification.kpi.totalChecks),
                                text(" checks passed. Exceptions should be investigated.") >>
            /\ Says(note, AllVerified)
                   <=> (verification.kpi.passed = verification.kpi.totalChecks)

\* The balance check failed by 50 beside a check that passed: the note warns
\* of the variance and does not say that all arithmetic is verified.
C23_Witness ==
    /\ Done
    /\ verification.balanceSheetResult # undefined
    /\ verification.balanceSheetResult.variance = RM(50)
    /\ verification.kpi.passed >= 1
    /\ Says(verification.conclusionNote, DoesNotBalance)
    /\ Embeds(verification.conclusionNote, RM(50))
    /\ ~Says(verification.conclusionNote, AllVerified)

\* C25: the KPI counters partition the checks: totalChecks is the number of
\* castings + movements + cross-references + 1 if the balance check ran;
\* passed + failed = totalChecks, with warnings = 0 and needsReview = 0;
\* exceptionsCount = failed; highSeverity + mediumSeverity + lowSeverity
\* = exceptionsCount.
C25_KpiPartition ==
    Done =>
        LET kpi == verification.kpi
        IN  /\ kpi.totalChecks
                   = Len(extraction.castingRelationships) + Len(extraction.movements)
                       + Len(extraction.crossReferences)
                       + (IF verification.balanceSheetResult # undefined THEN 1 ELSE 0)
            /\ kpi.passed + kpi.failed = kpi.totalChecks
            /\ kpi.passed = Len(ResultsOf(verification)) - Len(NonPassing(ResultsOf(verification)))
            /\ kpi.warnings = 0
            /\ kpi.needsReview = 0
            /\ kpi.exceptionsCount = kpi.failed
            /\ kpi.exceptionsCount = Len(verification.exceptions)
            /\ kpi.highSeverity + kpi.mediumSeverity + kpi.lowSeverity = kpi.exceptionsCount
            /\ kpi.highSeverity
                   = Cardinality({e \in 1..Len(verification.exceptions) :
                                     verification.exceptions[e].severity = "high"})

\* Seven checks, the balance check among them: four pass, three fail, one of
\* them high, one medium and one low.
C25_Witness ==
    /\ Done
    /\ verification.balanceSheetResult # undefined
    /\ verification.kpi.totalChecks = 7
    /\ verification.kpi.passed = 4
    /\ verification.kpi.failed = 3
    /\ verification.kpi.highSeverity = 1
    /\ verification.kpi.mediumSeverity = 1
    /\ verification.kpi.lowSeverity = 1

\* The amounts of a relationship that stand at the index of a label, a
\* missing one counted as 0.
PairedAmounts(rel) ==
    [i \in 1..Len(rel.componentLabels) |->
        IF i <= Len(rel.componentAmounts) THEN rel.componentAmounts[i] ELSE 0]

\* C26: verifyAllCastings pairs the components by position over
\* componentLabels only: a result has exactly componentLabels.length
\* components, an amount missing at the index of a label is taken as 0, and
\* an amount at an index beyond the last label is left out of
\* calculatedTotal; castingResults has one result for each relationship, in
\* input order.
C26_PositionalPairing ==
    Done =>
        /\ Len(verification.castingResults) = Len(extraction.castingRelationships)
        /\ \A k \in 1..Len(extraction.castingRelationships) :
               LET rel == extraction.castingRelationships[k]
                   r == verification.castingResults[k]
               IN  /\ Len(r.components) = Len(rel.componentLabels)
                   /\ \A i \in 1..Len(rel.componentLabels) :
                          /\ r.components[i].label = rel.componentLabels[i]
                          /\ r.components[i].amount = PairedAmounts(rel)[i]
                   /\ r.calculatedTotal = SumToCent(PairedAmounts(rel))
                   /\ r.statedTotal = rel.totalAmount
                   /\ r.section = rel.section

\* One label against the amounts 500 and 300, stated 500, in second place
\* behind another casting: one component, the 300 left out, and a pass.
C26_Witness ==
    /\ Done
    /\ Len(extraction.castingRelationships) = 2
    /\ extraction.castingRelationships[1] = castingRel(RM(500), 1, <<RM(500), RM(300)>>)
    /\ Len(verification.castingResults[1].components) = 1
    /\ verification.castingResults[1].calculatedTotal = RM(500)
    /\ verification.castingResults[1].status = "pass"
    /\ verification.castingResults[2].statedTotal = RM(800)

\* C27: only the first statement of type SOFP is considered: with no SOFP
\* statement, or when the first one lacks one of the three totals, the
\* balance check is skipped, even when a later SOFP statement carries all
\* three; otherwise the check is made on the current-period totals of the
\* first SOFP statement, and a prior-period total never enters it.
C27_FirstSOFPOnly ==
    Done =>
        LET bs == verification.balanceSheetResult
        IN  /\ FirstSOFPs = {} => bs = undefined
            /\ \A i \in FirstSOFPs :
                   LET sofp == extraction.statements[i]
                   IN  /\ LacksATotal(sofp) => bs = undefined
                       /\ ~LacksATotal(sofp) =>
                              /\ bs # undefined
                              /\ bs.totalAssets = sofp.totalAssets.current
                              /\ bs.totalLiabilities = sofp.totalLiabilities.current
                              /\ bs.totalEquity = sofp.totalEquity.current
                              /\ bs.totalAssets # sofp.totalAssets.prior
                              /\ bs.totalLiabilities # sofp.totalLiabilities.prior
                              /\ bs.totalEquity # sofp.totalEquity.prior
                              /\ bs.variance
                                     = Abs(ToCent(sofp.totalAssets.current
                                           - SumToCent(<<sofp.totalLiabilities.current,
                                                         sofp.totalEquity.current>>)))

\* The first SOFP statement lacks its total equity, the second carries all
\* three totals: no balance check was made.
C27_Witness ==
    /\ Done
    /\ extraction.statements
           = << statement("SOFP", pair(RM(1000)), pair(RM(600)), undefined),
                statement("SOFP", pair(RM(1000)), pair(RM(600)), pair(RM(350))) >>
    /\ verification.balanceSheetResult = undefined
    /\ verification.kpi.totalChecks = 0

\* The exception type fixed for a kind of check.
TypeOf(checkType) ==
    CASE checkType = "vertical" -> "Casting Error"
      [] checkType = "balance_equation" -> "Balance Sheet Imbalance"
      [] checkType = "horizontal" -> "Movement Reconciliation Error"
      [] checkType = "cross_reference" -> "Cross Reference Mismatch"

\* C28: every exception has a difference > 0, equal to the variance of the
\* result its relatedCheckId names (one result, and one only); its
\* statedAmount and calculatedAmount are the stated and the calculated value
\* of that result (statedTotal / calculatedTotal, totalAssets /
\* calculatedLiabilitiesPlusEquity, statedClosing / calculatedClosing,
\* statementAmount / noteAmount), and its type is the one fixed for the kind
\* of check.
C28_ExceptionFields ==
    Done =>
        \A e \in 1..Len(verification.exceptions) :
            LET ex == verification.exceptions[e]
                results == ResultsOf(verification)
                related == {i \in 1..Len(results) : results[i].id = ex.relatedCheckId}
            IN  /\ Cardinality(related) = 1
                /\ ex.difference > 0
                /\ \A i \in related :
                       /\ ex.difference = results[i].variance
                       /\ ex.statedAmount = StatedOf(results[i])
                       /\ ex.calculatedAmount = CalculatedOf(results[i])
                       /\ ex.type = TypeOf(results[i].checkType)
                       /\ results[i].status = "fail"

\* A note of 20500 against a statement amount of 500 beside a balance sheet
\* out by 50: one exception of each of the two types, with their amounts.
C28_Witness ==
    /\ Done
    /\ Len(verification.exceptions) = 2
    /\ verification.exceptions[1].type = "Balance Sheet Imbalance"
    /\ verification.exceptions[1].statedAmount = RM(1000)
    /\ verification.exceptions[1].calculatedAmount = RM(950)
    /\ verification.exceptions[1].difference = RM(50)
    /\ verification.exceptions[2].type = "Cross Reference Mismatch"
    /\ verification.exceptions[2].statedAmount = RM(500)
    /\ verification.exceptions[2].calculatedAmount = RM(20500)
    /\ verification.exceptions[2].difference = RM(20000)
    /\ verification.exceptions[2].relatedCheckId = verification.crossReferenceResults[1].id

\* ---- C24
\* The castings the converter takes its relationships from: all of them in
\* convertToStandardFormat, those of the preferred column in
\* convertToExtractionResult.
ConvertedCastings ==
    IF raw.via = "single" THEN raw.parsed.castings
    ELSE LET columns == raw.toolResult.columns
             wanted == IF columns = null THEN "current"
                       ELSE IF columns.hasGroupColumns THEN "group_current"
                       ELSE IF columns.hasCompanyColumns THEN "company_current"
                       ELSE "current"
             Wanted(c) == c.columnSource = wanted
         IN  SelectSeq(raw.toolResult.castings, Wanted)

\* C24: every casting relationship handed over by either converter has as
\* many componentLabels as componentAmounts, the label and the amount of the
\* i-th component in the i-th places, and the casting results that
\* verifyAllCastings pairs from them carry every component with its amount.
C24_ConvertedCastingsPaired ==
    (raw # noResult /\ pc \in {"ready", "done"}) =>
        /\ Len(extraction.castingRelationships) = Len(ConvertedCastings)
        /\ \A k \in 1..Len(extraction.castingRelationships) :
               LET rel == extraction.castingRelationships[k]
                   components == ConvertedCastings[k].components
               IN  /\ Len(rel.componentLabels) = Len(rel.componentAmounts)
                   /\ Len(rel.componentAmounts) = Len(components)
                   /\ \A i \in 1..Len(components) :
                          /\ rel.componentLabels[i] = components[i].label
                          /\ rel.componentAmounts[i] = components[i].amount
                   /\ pc = "done" =>
                          verification.castingResults[k].components = components

C24_Witness ==
    /\ raw # noResult
    /\ pc = "done"
    /\ raw.via = "tools"
    /\ Len(raw.toolResult.castings) = 2
    /\ Len(extraction.castingRelationships) = 1
    /\ extraction.castingRelationships[1].componentAmounts = <<0, RM(500)>>
    /\ extraction.castingRelationships[1].componentLabels = <<"A", "B">>
    /\ verification.castingResults[1].status = "pass"

\* ---- C29
Failed(outcome) == outcome.settled = "rejected"

MessageOf(outcome) ==
    IF outcome.error.kind = "Error" THEN outcome.error.message
    ELSE outcome.error.string

RateLimited(outcome) ==
    /\ Failed(outcome)
    /\ \/ includes(MessageOf(outcome), <<"4", "2", "9">>)
       \/ includes(MessageOf(outcome), <<"r", "a", "t", "e">>)
       \/ includes(MessageOf(outcome), <<"q", "u", "o", "t", "a">>)

Calls == Len(retry.settled)

RetryBounded ==
    /\ Calls <= retry.maxRetries + 1
    /\ \A i \in 1..(Calls - 1) : RateLimited(retry.settled[i]) /\ i <= retry.maxRetries
    /\ retry.pc = "waiting" =>
           RateLimited(retry.settled[Calls]) /\ retry.attempt < retry.maxRetries
    /\ retry.pc = "loop" => Calls = retry.attempt

RetryOutcome ==
    /\ (Calls > 0 /\ ~Failed(retry.settled[Calls])) =>
           retry.pc = "returned" /\ retry.value = retry.settled[Calls].value
    /\ retry.pc = "returned" => Calls > 0 /\ ~Failed(retry.settled[Calls])
    /\ (Calls > 0 /\ Failed(retry.settled[Calls]) /\ ~RateLimited(retry.settled[Calls])) =>
           retry.pc = "thrown"
    /\ (Calls = retry.maxRetries + 1 /\ Calls > 0 /\ Failed(retry.settled[Calls])) =>
           retry.pc = "thrown"
    /\ retry.pc = "thrown" =>
           IF Calls = 0 THEN retry.maxRetries < 0 /\ retry.thrown = null
           ELSE /\ Failed(retry.settled[Calls])
                /\ retry.thrown = Error(MessageOf(retry.settled[Calls]))
                /\ ~RateLimited(retry.settled[Calls]) \/ Calls = retry.maxRetries + 1

RetryEnded == retry.pc \in {"returned", "thrown"}

\* C29: withRetry calls fn at most maxRetries + 1 times; every call but the
\* last failed with a message containing "429", "rate" or "quota" and was
\* made while attempt < maxRetries; the first successful call ends withRetry
\* with that call's value, any other error is thrown at once, the last error
\* is thrown after maxRetries + 1 rate-limit failures; once withRetry has
\* returned or thrown, fn is not called again; and withRetry always ends.
C29_WithRetry ==
    /\ [](RetryBounded /\ RetryOutcome)
    /\ [][RetryEnded => UNCHANGED retry]_vars
    /\ <>RetryEnded

C29_Witness ==
    /\ retry # noResult
    /\ retry.maxRetries = MaxMaxRetries
    /\ Calls = MaxMaxRetries + 1
    /\ retry.pc = "thrown"
    /\ RateLimited(retry.settled[Calls])
    /\ retry.settled[1] # retry.settled[Calls]

\* ---- C30
KnownTools ==
    { "identify_columns", "extract_metadata", "extract_balance_sheet_totals",
      "extract_casting", "extract_cross_reference", "extract_movement",
      "flag_warning", "extraction_complete" }

\* The function calls of the response the next turn of the loop looks at.
CallsOf(response) ==
    LET HasCall(part) == "functionCall" \in DOMAIN part
    IN  IF response.candidates = <<>> THEN <<>>
        ELSE SelectSeq(response.candidates[1].content.parts, HasCall)

Completes(calls) ==
    \E i \in 1..Len(calls) : calls[i].functionCall.name = "extraction_complete"

RECURSIVE ArgsOf(_, _)
ArgsOf(calls, name) ==
    IF calls = <<>> THEN <<>>
    ELSE IF Head(calls).functionCall.name = name
         THEN <<Head(calls).functionCall.args>> \o ArgsOf(Tail(calls), name)
         ELSE ArgsOf(Tail(calls), name)

Turn == chat.pc = "loop" /\ chat'.iterations # chat.iterations

LoopOver ==
    chat.pc \in {"finished", "returned", "thrown"}
        \/ (chat.pc = "loop" /\ (~chat.continueLoop \/ chat.iterations >= 20))

StopsWithoutCalls ==
    (Turn /\ CallsOf(chat.lastResponse) = <<>>) =>
        /\ chat'.pc = "finished"
        /\ chat'.sent = chat.sent
        /\ chat'.toolCallResult = chat.toolCallResult

RecordsEveryCall ==
    (Turn /\ CallsOf(chat.lastResponse) # <<>>) =>
        LET calls == CallsOf(chat.lastResponse)
            before == chat.toolCallResult
            after == chat'.toolCallResult
        IN  /\ after.castings = before.castings \o ArgsOf(calls, "extract_casting")
            /\ after.balanceSheetTotals
                   = before.balanceSheetTotals \o ArgsOf(calls, "extract_balance_sheet_totals")
            /\ after.crossReferences
                   = before.crossReferences \o ArgsOf(calls, "extract_cross_reference")
            /\ after.movements = before.movements \o ArgsOf(calls, "extract_movement")
            /\ after.warnings = before.warnings \o ArgsOf(calls, "flag_warning")
            /\ chat'.toolCallsCount = chat.toolCallsCount + Len(calls)
            /\ Len(chat'.functionResponses) = Len(calls)
            /\ Completes(calls) =>
                   /\ after.completionInfo # null
                   /\ ~chat'.continueLoop
                   /\ chat'.sent = chat.sent
            /\ \A i \in 1..Len(calls) :
                   calls[i].functionCall.name \notin KnownTools =>
                       /\ chat'.functionResponses[i].functionResponse.response.success = FALSE
                       /\ ~Completes(calls) =>
                              /\ chat'.continueLoop
                              /\ chat'.sent = chat.sent + 1
                              /\ chat'.pc \in {"loop", "thrown"}

NothingAfterTheLoop ==
    LoopOver => /\ chat'.sent = chat.sent
                /\ chat'.iterations = chat.iterations
                /\ chat'.toolCallResult = chat.toolCallResult

\* C30: the loop makes at most 20 turns and extractWithToolCalling ends; a
\* turn that finds no candidate or no function call ends the loop without
\* sending a message; a turn that processes extraction_complete records
\* every call of its response, those before extraction_complete included,
\* clears continueLoop and sends nothing; an unknown tool name gets a
\* response with success false, and unless extraction_complete is in the
\* same response the loop goes on and the responses are sent; once the loop
\* is over no message is sent and nothing more is recorded.
C30_ToolCallingLoop ==
    /\ [](chat.iterations <= 20 /\ chat.sent <= chat.iterations + 1)
    /\ [][StopsWithoutCalls /\ RecordsEveryCall /\ NothingAfterTheLoop]_vars
    /\ <>(chat.pc \in {"returned", "thrown"})

C30_Witness ==
    /\ chat # noResult
    /\ chat.pc = "returned"
    /\ chat.iterations = 20
    /\ chat.toolCallResult.completionInfo # null
    /\ chat.toolCallResult.columns = null
    /\ Len(chat.toolCallResult.castings) = 18
    /\ Len(chat.toolCallResult.balanceSheetTotals) = 1
    /\ Len(chat.toolCallResult.warnings) = 1
    /\ chat.toolCallsCount = 22
    /\ chat.sent = 20

====
